---- MODULE Spec2Model ----
(***************************************************************************)
(* Model of Janus' Cedar policy splitter, splitCedarPolicies               *)
(* (policy-parser.ts).  A document is a finite sequence of one-character   *)
(* strings.  One action per branch of the scan loop body, one action for   *)
(* the trailing-content throw and one for the successful return.           *)
(* Around it: the AuthorizationService singleton and request builder, the  *)
(* user details module and the middleware's before hook.                   *)
(***************************************************************************)
EXTENDS Integers, Sequences, FiniteSets, TLC

\* Longest document explored.
MaxLen == 5

\* Characters a document is drawn from: every character the scanner tests
\* for, the two kinds of whitespace it can meet (one of which ends a line
\* comment) and one ordinary character.
Alphabet == {";", "\"", "/", "*", "\\", "\n", " ", "a"}

\* Characters String.prototype.trim removes (those that occur in Alphabet,
\* plus tab and carriage return).
WhiteSpace == {" ", "\t", "\n", "\r"}

Docs == UNION {[1..n -> Alphabet] : n \in 0..MaxLen}

VARIABLES
    policyFile,      \* the argument, a sequence of characters
    i,               \* loop index (0-based, as in the code)
    buf,             \* pending buffer
    inString,        \* inside "..."
    inLineComment,   \* inside // ...
    inBlockComment,  \* inside /* ... */
    prev,            \* previous character, "" initially
    results,         \* statements pushed so far
    pc,              \* "scan", "thrown" or "returned"
    finalResults,    \* the returned record: sequence of <<key, value>> in insertion order
    calls,           \* concurrent invocations of splitCedarPolicies: one record of locals each
    service,         \* AuthorizationService.service: 0 (undefined) or an index into instances
    instances,       \* the AuthorizationService objects constructed so far
    getServiceLog,   \* SpecService: one entry per getService call (arguments, loads, result)
    userName,        \* user-details-service: let userName
    roles,           \* user-details-service: let roles
    lastCall         \* the latest call made from outside, with what it did

\* The locals of the single invocation the scan actions step.
scanVars == <<policyFile, i, buf, inString, inLineComment, inBlockComment, prev,
              results, pc, finalResults>>

\* Everything the single invocation does not touch.
nonScanVars == <<calls, service, instances, getServiceLog, userName, roles,
                 lastCall>>

\* The user details and the record of the latest call.
userVars == <<userName, roles, lastCall>>

vars == <<policyFile, i, buf, inString, inLineComment, inBlockComment, prev,
          results, pc, finalResults, calls, service, instances, getServiceLog,
          userName, roles, lastCall>>

\* The value of a variable or field nothing was assigned to.
Undefined == "undefined"

\* roles is undefined, or an array of role names.
NoRoles == [defined |-> FALSE, items |-> <<>>]

RolesOf(items) == [defined |-> TRUE, items |-> items]

\* No call has been made.
NoCall == [op |-> "none"]

\* The user details module as loaded, before any call.
UserIdle ==
    /\ userName = Undefined
    /\ roles = NoRoles
    /\ lastCall = NoCall

\* No concurrent invocations and no service: the state outside the single
\* invocation when only that invocation is under study.
NonScanIdle ==
    /\ calls = <<>>
    /\ service = 0
    /\ instances = <<>>
    /\ getServiceLog = <<>>
    /\ UserIdle

-----------------------------------------------------------------------------
\* String.prototype.trim

RECURSIVE TrimStart(_)
TrimStart(s) ==
    IF s = <<>> THEN <<>>
    ELSE IF Head(s) \in WhiteSpace THEN TrimStart(Tail(s))
    ELSE s

RECURSIVE TrimEnd(_)
TrimEnd(s) ==
    IF s = <<>> THEN <<>>
    ELSE IF s[Len(s)] \in WhiteSpace THEN TrimEnd(SubSeq(s, 1, Len(s) - 1))
    ELSE s

Trim(s) == TrimEnd(TrimStart(s))

\* The statements ss written one after the other with sep between them.
RECURSIVE JoinWith(_, _)
JoinWith(ss, sep) ==
    IF ss = <<>> THEN <<>>
    ELSE IF Len(ss) = 1 THEN ss[1]
    ELSE ss[1] \o sep \o JoinWith(Tail(ss), sep)

-----------------------------------------------------------------------------
\* Template literal `policy_${idx}`: decimal rendering of the index.

Digits == <<"0", "1", "2", "3", "4", "5", "6", "7", "8", "9">>

RECURSIVE NumberToString(_)
NumberToString(n) ==
    IF n < 10 THEN Digits[n + 1]
    ELSE NumberToString(n \div 10) \o Digits[(n % 10) + 1]

PolicyIdOneBased(idx) == "policy_" \o NumberToString(idx + 1)

PolicyId(idx) == "policy_" \o NumberToString(idx)

\* obj[key] = value on a plain object whose keys are not array indices:
\* an existing key keeps its place, a new key goes last.
SetProperty(obj, key, value) ==
    IF \E k \in 1..Len(obj) : obj[k][1] = key
    THEN [k \in 1..Len(obj) |->
            IF obj[k][1] = key THEN <<key, value>> ELSE obj[k]]
    ELSE Append(obj, <<key, value>>)

\* results.filter((p) => p.length > 0)
FilterNonEmpty(rs) == SelectSeq(rs, LAMBDA p : Len(p) > 0)

\* The loop that fills finalResults, idx = 0 .. filteredResults.length - 1.
RECURSIVE AssignIds(_, _, _)
AssignIds(obj, filteredResults, idx) ==
    IF idx < Len(filteredResults)
    THEN AssignIds(SetProperty(obj, PolicyId(idx), filteredResults[idx + 1]),
                   filteredResults, idx + 1)
    ELSE obj

-----------------------------------------------------------------------------
\* Loop locals

ch == policyFile[i + 1]

\* A look-ahead that reads a `/` past the end of the document.
nextPastEnd == IF i + 1 < Len(policyFile) THEN policyFile[i + 2] ELSE "/"

next == IF i + 1 < Len(policyFile) THEN policyFile[i + 2] ELSE ""

InLoop == pc = "scan" /\ i < Len(policyFile)

\* if (policy.length > 0) results.push(policy), policy = buf.trim()
PushPolicyFirst(rs, b) ==
    IF Len(Trim(b)) > 0 THEN <<Trim(b)>> \o rs ELSE rs

PushPolicyWithoutTerminator(rs, b) ==
    IF Len(Trim(b)) > 0 THEN Append(rs, Trim(SubSeq(b, 1, Len(b) - 1))) ELSE rs

PushPolicyUntrimmed(rs, b) ==
    IF Len(b) > 0 THEN Append(rs, b) ELSE rs

\* A push that drops a segment with nothing but whitespace before its `;`.
PushPolicyDroppingEmpty(rs, b) ==
    IF Len(Trim(SubSeq(b, 1, Len(b) - 1))) > 0 THEN Append(rs, Trim(b)) ELSE rs

PushPolicy(rs, b) ==
    IF Len(Trim(b)) > 0 THEN Append(rs, Trim(b)) ELSE rs

\* !inString && ch === ";"
IsTerminatorAnywhere(inStr, c) == c = ";"

IsTerminator(inStr, c) == ~inStr /\ c = ";"

\* tail.length > 0, tail = buf.trim()
HasTrailingUntrimmed(b) == Len(b) > 0

HasTrailing(b) == Len(Trim(b)) > 0

-----------------------------------------------------------------------------
Init ==
    /\ policyFile \in Docs
    /\ i = 0
    /\ buf = <<>>
    /\ inString = FALSE
    /\ inLineComment = FALSE
    /\ inBlockComment = FALSE
    /\ prev = ""
    /\ results = <<>>
    /\ pc = "scan"
    /\ finalResults = <<>>
    /\ NonScanIdle

\* A scanner that skips the body of a line comment instead of keeping it.
InLineCommentStepStripping ==
    /\ InLoop
    /\ inLineComment
    /\ buf' = IF ch = "\n" THEN Append(buf, ch) ELSE buf
    /\ inLineComment' = (ch # "\n")
    /\ prev' = ch
    /\ i' = i + 1
    /\ UNCHANGED <<policyFile, inString, inBlockComment, results, pc, finalResults>>
    /\ UNCHANGED nonScanVars

\* A scanner that leaves a line comment at any whitespace character.
InLineCommentStepLeavingAtWhiteSpace ==
    /\ InLoop
    /\ inLineComment
    /\ buf' = Append(buf, ch)
    /\ inLineComment' = (ch \notin WhiteSpace)
    /\ prev' = ch
    /\ i' = i + 1
    /\ UNCHANGED <<policyFile, inString, inBlockComment, results, pc, finalResults>>
    /\ UNCHANGED nonScanVars

\* if (inLineComment) { ... continue; }
InLineCommentStep ==
    /\ InLoop
    /\ inLineComment
    /\ buf' = Append(buf, ch)
    /\ inLineComment' = (ch # "\n")
    /\ prev' = ch
    /\ i' = i + 1
    /\ UNCHANGED <<policyFile, inString, inBlockComment, results, pc, finalResults>>
    /\ UNCHANGED nonScanVars

\* A scanner that looks for the terminator before it looks at the comment flag.
InBlockCommentStepSplitting ==
    /\ InLoop
    /\ ~inLineComment
    /\ inBlockComment
    /\ IF ch = ";"
       THEN /\ results' = PushPolicy(results, Append(buf, ch))
            /\ buf' = <<>>
            /\ UNCHANGED inBlockComment
       ELSE /\ buf' = Append(buf, ch)
            /\ inBlockComment' = ~(prev = "*" /\ ch = "/")
            /\ UNCHANGED results
    /\ prev' = ch
    /\ i' = i + 1
    /\ UNCHANGED <<policyFile, inString, inLineComment, pc, finalResults>>
    /\ UNCHANGED nonScanVars

\* if (inBlockComment) { ... continue; }
InBlockCommentStep ==
    /\ InLoop
    /\ ~inLineComment
    /\ inBlockComment
    /\ buf' = Append(buf, ch)
    /\ inBlockComment' = ~(prev = "*" /\ ch = "/")
    /\ prev' = ch
    /\ i' = i + 1
    /\ UNCHANGED <<policyFile, inString, inLineComment, results, pc, finalResults>>
    /\ UNCHANGED nonScanVars

\* A scanner that opens a line comment inside a string too.
StartLineCommentInString ==
    /\ InLoop
    /\ ~inLineComment /\ ~inBlockComment
    /\ ch = "/" /\ next = "/"
    /\ inLineComment' = TRUE
    /\ buf' = buf \o <<ch, next>>
    /\ i' = i + 2
    /\ prev' = "/"
    /\ UNCHANGED <<policyFile, inString, inBlockComment, results, pc, finalResults>>
    /\ UNCHANGED nonScanVars

\* A scanner that drops the comment opener instead of keeping it.
StartLineCommentStripping ==
    /\ InLoop
    /\ ~inLineComment /\ ~inBlockComment
    /\ ~inString /\ ch = "/" /\ next = "/"
    /\ inLineComment' = TRUE
    /\ i' = i + 2
    /\ prev' = "/"
    /\ UNCHANGED <<buf, policyFile, inString, inBlockComment, results, pc, finalResults>>
    /\ UNCHANGED nonScanVars

\* if (!inString && ch === "/" && next === "/") { ... i++; continue; }
StartLineComment ==
    /\ InLoop
    /\ ~inLineComment /\ ~inBlockComment
    /\ ~inString /\ ch = "/" /\ next = "/"
    /\ inLineComment' = TRUE
    /\ buf' = buf \o <<ch, next>>
    /\ i' = i + 2
    /\ prev' = "/"
    /\ UNCHANGED <<policyFile, inString, inBlockComment, results, pc, finalResults>>
    /\ UNCHANGED nonScanVars

\* A scanner that opens a block comment inside a string too.
StartBlockCommentInString ==
    /\ InLoop
    /\ ~inLineComment /\ ~inBlockComment
    /\ ch = "/" /\ next = "*"
    /\ inBlockComment' = TRUE
    /\ buf' = buf \o <<ch, next>>
    /\ i' = i + 2
    /\ prev' = "*"
    /\ UNCHANGED <<policyFile, inString, inLineComment, results, pc, finalResults>>
    /\ UNCHANGED nonScanVars

\* A scanner that drops the block comment opener instead of keeping it.
StartBlockCommentStripping ==
    /\ InLoop
    /\ ~inLineComment /\ ~inBlockComment
    /\ ~inString /\ ch = "/" /\ next = "*"
    /\ inBlockComment' = TRUE
    /\ i' = i + 2
    /\ prev' = "*"
    /\ UNCHANGED <<buf, policyFile, inString, inLineComment, results, pc, finalResults>>
    /\ UNCHANGED nonScanVars

\* if (!inString && ch === "/" && next === "*") { ... i++; continue; }
StartBlockComment ==
    /\ InLoop
    /\ ~inLineComment /\ ~inBlockComment
    /\ ~inString /\ ch = "/" /\ next = "*"
    /\ inBlockComment' = TRUE
    /\ buf' = buf \o <<ch, next>>
    /\ i' = i + 2
    /\ prev' = "*"
    /\ UNCHANGED <<policyFile, inString, inLineComment, results, pc, finalResults>>
    /\ UNCHANGED nonScanVars

\* The guards of the two comment-opening branches, which the later branches
\* are reached past.
OpensComment == ~inString /\ ch = "/" /\ next \in {"/", "*"}

\* A scanner that toggles on every quote, whatever precedes it.
ToggleStringIgnoringEscape ==
    /\ InLoop
    /\ ~inLineComment /\ ~inBlockComment /\ ~OpensComment
    /\ ch = "\""
    /\ inString' = ~inString
    /\ buf' = Append(buf, ch)
    /\ prev' = ch
    /\ i' = i + 1
    /\ UNCHANGED <<policyFile, inLineComment, inBlockComment, results, pc, finalResults>>
    /\ UNCHANGED nonScanVars

\* A scanner that drops the quote that opens or closes a string.
ToggleStringStripping ==
    /\ InLoop
    /\ ~inLineComment /\ ~inBlockComment /\ ~OpensComment
    /\ ch = "\"" /\ prev # "\\"
    /\ inString' = ~inString
    /\ prev' = ch
    /\ i' = i + 1
    /\ UNCHANGED <<buf, policyFile, inLineComment, inBlockComment, results, pc, finalResults>>
    /\ UNCHANGED nonScanVars

\* if (ch === `"` && prev !== "\\") { ... continue; }
ToggleString ==
    /\ InLoop
    /\ ~inLineComment /\ ~inBlockComment /\ ~OpensComment
    /\ ch = "\"" /\ prev # "\\"
    /\ inString' = ~inString
    /\ buf' = Append(buf, ch)
    /\ prev' = ch
    /\ i' = i + 1
    /\ UNCHANGED <<policyFile, inLineComment, inBlockComment, results, pc, finalResults>>
    /\ UNCHANGED nonScanVars

\* A scanner that pushes the statement but does not reset the buffer.
NormalCharNotResetting ==
    /\ InLoop
    /\ ~inLineComment /\ ~inBlockComment /\ ~OpensComment
    /\ ~(ch = "\"" /\ prev # "\\")
    /\ IF IsTerminator(inString, ch)
       THEN /\ results' = PushPolicy(results, Append(buf, ch))
            /\ buf' = Append(buf, ch)
       ELSE /\ buf' = Append(buf, ch)
            /\ UNCHANGED results
    /\ prev' = ch
    /\ i' = i + 1
    /\ UNCHANGED <<policyFile, inString, inLineComment, inBlockComment, pc, finalResults>>
    /\ UNCHANGED nonScanVars

\* A scanner whose terminator leaves the previous character as it was.
NormalCharKeepingPrev ==
    /\ InLoop
    /\ ~inLineComment /\ ~inBlockComment /\ ~OpensComment
    /\ ~(ch = "\"" /\ prev # "\\")
    /\ IF IsTerminator(inString, ch)
       THEN /\ results' = PushPolicy(results, Append(buf, ch))
            /\ buf' = <<>>
            /\ prev' = prev
       ELSE /\ buf' = Append(buf, ch)
            /\ prev' = ch
            /\ UNCHANGED results
    /\ i' = i + 1
    /\ UNCHANGED <<policyFile, inString, inLineComment, inBlockComment, pc, finalResults>>
    /\ UNCHANGED nonScanVars

\* Normal char: buf += ch; the terminator test; prev = ch.
NormalChar ==
    /\ InLoop
    /\ ~inLineComment /\ ~inBlockComment /\ ~OpensComment
    /\ ~(ch = "\"" /\ prev # "\\")
    /\ IF IsTerminator(inString, ch)
       THEN /\ results' = PushPolicy(results, Append(buf, ch))
            /\ buf' = <<>>
       ELSE /\ buf' = Append(buf, ch)
            /\ UNCHANGED results
    /\ prev' = ch
    /\ i' = i + 1
    /\ UNCHANGED <<policyFile, inString, inLineComment, inBlockComment, pc, finalResults>>
    /\ UNCHANGED nonScanVars

\* A function that builds the mapping before it looks at the tail.
ThrowTrailingContentAfterBuild ==
    /\ pc = "scan"
    /\ ~(i < Len(policyFile))
    /\ HasTrailing(buf)
    /\ finalResults' = AssignIds(<<>>, FilterNonEmpty(results), 0)
    /\ pc' = "thrown"
    /\ UNCHANGED <<policyFile, i, buf, inString, inLineComment, inBlockComment,
                   prev, results>>
    /\ UNCHANGED nonScanVars

\* A scanner that also raises the trailing-content error in the middle of the
\* scan, as soon as it stands inside an unclosed string.
ThrowTrailingContentEarly ==
    /\ pc = "scan"
    /\ ~(i < Len(policyFile)) \/ inString
    /\ HasTrailing(buf)
    /\ pc' = "thrown"
    /\ UNCHANGED <<policyFile, i, buf, inString, inLineComment, inBlockComment,
                   prev, results, finalResults>>
    /\ UNCHANGED nonScanVars

\* After the loop: throw new Error("Trailing content after last policy terminator ...")
ThrowTrailingContent ==
    /\ pc = "scan"
    /\ ~(i < Len(policyFile))
    /\ HasTrailing(buf)
    /\ pc' = "thrown"
    /\ UNCHANGED <<policyFile, i, buf, inString, inLineComment, inBlockComment,
                   prev, results, finalResults>>
    /\ UNCHANGED nonScanVars

\* After the loop: build finalResults and return it.
ReturnFinalResults ==
    /\ pc = "scan"
    /\ ~(i < Len(policyFile))
    /\ ~HasTrailing(buf)
    /\ finalResults' = AssignIds(<<>>, FilterNonEmpty(results), 0)
    /\ pc' = "returned"
    /\ UNCHANGED <<policyFile, i, buf, inString, inLineComment, inBlockComment,
                   prev, results>>
    /\ UNCHANGED nonScanVars

Next ==
    \/ InLineCommentStep
    \/ InBlockCommentStep
    \/ StartLineComment
    \/ StartBlockComment
    \/ ToggleString
    \/ NormalChar
    \/ ThrowTrailingContent
    \/ ReturnFinalResults

Spec == Init /\ [][Next]_vars

-----------------------------------------------------------------------------
\* The same function as a value-to-value operator: one invocation is a
\* record of its locals, StepCall is one loop iteration (or, after the loop,
\* the throw or the return), and splitCedarPolicies runs an invocation to its
\* end.

\* The locals at function entry.
InitialCall(doc) ==
    [policyFile |-> doc, i |-> 0, buf |-> <<>>, inString |-> FALSE,
     inLineComment |-> FALSE, inBlockComment |-> FALSE, prev |-> "",
     results |-> <<>>, pc |-> "scan", finalResults |-> <<>>]

StepCall(s) ==
    LET c == s.policyFile[s.i + 1]
        nx == IF s.i + 1 < Len(s.policyFile) THEN s.policyFile[s.i + 2] ELSE ""
    IN
    IF s.i < Len(s.policyFile)
    THEN IF s.inLineComment
         THEN [s EXCEPT !.buf = Append(@, c), !.inLineComment = (c # "\n"),
                        !.prev = c, !.i = @ + 1]
         ELSE IF s.inBlockComment
         THEN [s EXCEPT !.buf = Append(@, c),
                        !.inBlockComment = ~(s.prev = "*" /\ c = "/"),
                        !.prev = c, !.i = @ + 1]
         ELSE IF ~s.inString /\ c = "/" /\ nx = "/"
         THEN [s EXCEPT !.inLineComment = TRUE, !.buf = @ \o <<c, nx>>,
                        !.i = @ + 2, !.prev = "/"]
         ELSE IF ~s.inString /\ c = "/" /\ nx = "*"
         THEN [s EXCEPT !.inBlockComment = TRUE, !.buf = @ \o <<c, nx>>,
                        !.i = @ + 2, !.prev = "*"]
         ELSE IF c = "\"" /\ s.prev # "\\"
         THEN [s EXCEPT !.inString = ~@, !.buf = Append(@, c),
                        !.prev = c, !.i = @ + 1]
         ELSE IF IsTerminator(s.inString, c)
         THEN [s EXCEPT !.results = PushPolicy(@, Append(s.buf, c)),
                        !.buf = <<>>, !.prev = c, !.i = @ + 1]
         ELSE [s EXCEPT !.buf = Append(@, c), !.prev = c, !.i = @ + 1]
    ELSE IF HasTrailing(s.buf)
         THEN [s EXCEPT !.pc = "thrown"]
         ELSE [s EXCEPT !.finalResults = AssignIds(<<>>, FilterNonEmpty(s.results), 0),
                        !.pc = "returned"]

RECURSIVE RunCall(_)
RunCall(s) == IF s.pc # "scan" THEN s ELSE RunCall(StepCall(s))

\* What the caller sees: the error, or the mapping.
OutcomeOf(s) ==
    IF s.pc = "thrown" THEN [threw |-> TRUE, value |-> <<>>]
    ELSE [threw |-> FALSE, value |-> s.finalResults]

splitCedarPolicies(doc) == OutcomeOf(RunCall(InitialCall(doc)))

\* The single invocation of the scan actions, as such a record.
ThisCall ==
    [policyFile |-> policyFile, i |-> i, buf |-> buf, inString |-> inString,
     inLineComment |-> inLineComment, inBlockComment |-> inBlockComment,
     prev |-> prev, results |-> results, pc |-> pc, finalResults |-> finalResults]

\* Every step of the scan actions is the step StepCall computes.
ScanActionsAreStepCall == [][ThisCall' = StepCall(ThisCall)]_vars

\* Two invocations whose loop iterations interleave.  Each invocation's
\* locals (results, buf, the three flags, prev, i) are declared inside the
\* function body, so a step of invocation c stores into c's record only.
PairMaxLen == 2

PairAlphabet == {";", "\"", "/", "*", "\\", "\n"}

PairDocs == UNION {[1..n -> PairAlphabet] : n \in 0..PairMaxLen}

\* A scanner whose `prev` is declared at module level: every invocation
\* sees the last value any of them stored.
StoreLocalsSharedPrev(cs, c, s) ==
    [k \in DOMAIN cs |-> IF k = c THEN s ELSE [cs[k] EXCEPT !.prev = s.prev]]

StoreLocals(cs, c, s) == [cs EXCEPT ![c] = s]

\* The single invocation of the scan actions is not running.
ScanIdle ==
    /\ policyFile = <<>>
    /\ i = 0
    /\ buf = <<>>
    /\ inString = FALSE
    /\ inLineComment = FALSE
    /\ inBlockComment = FALSE
    /\ prev = ""
    /\ results = <<>>
    /\ pc = "idle"
    /\ finalResults = <<>>

InitPair ==
    /\ \E d1, d2 \in PairDocs : calls = <<InitialCall(d1), InitialCall(d2)>>
    /\ service = 0
    /\ instances = <<>>
    /\ getServiceLog = <<>>
    /\ UserIdle
    /\ ScanIdle

\* One loop iteration, or the throw or return after the loop, of invocation c.
StepInvocation(c) ==
    /\ calls[c].pc = "scan"
    /\ calls' = StoreLocals(calls, c, StepCall(calls[c]))
    /\ UNCHANGED <<scanVars, service, instances, getServiceLog, userVars>>

StepFirstInvocation == StepInvocation(1)

StepSecondInvocation == StepInvocation(2)

NextPair ==
    \/ StepFirstInvocation
    \/ StepSecondInvocation

SpecPair == InitPair /\ [][NextPair]_vars

\* AuthorizationService.getService (authorization-service.ts): the static
\* singleton cache.  An instance is an index into instances; service = 0 is
\* the unset static field.  The files getService reads and the arguments it
\* is given are inputs of each call; getServiceLog records, per call, the
\* arguments, the loadFileAsString calls made with what each gave back, and
\* what the call resolved or rejected with.

POLICY_FILE_NAME == "policies.cedar"

SCHEMA_FILE_NAME == "schema.cedarschema"

\* Most getService calls explored.
MaxGetService == 3

\* Values of the authorizationConfig argument.
Configs == {"configA", "configB"}

\* Contents policies.cedar can have: a well-formed document and one that
\* lacks its terminator.
PolicyTexts == {<<"a", ";">>, <<"a">>}

\* Contents schema.cedarschema can have.
SchemaTexts == {"schema"}

\* loadFileAsString threw.
LoadFailed == "load failed"

\* The entities field: undefined until addEntity or setEntities assigns an
\* array, then the array's items in order.
NoEntities == [defined |-> FALSE, items |-> <<>>]

EntitiesOf(items) == [defined |-> TRUE, items |-> items]

\* new AuthorizationService(policy, schema, authorizationConfig), for a
\* policy text the splitter accepts.
NewAuthorizationService(policy, schema, authorizationConfig) ==
    [policy |-> splitCedarPolicies(policy).value,
     schema |-> schema,
     authorizationConfig |-> authorizationConfig,
     action |-> Undefined,
     resource |-> Undefined,
     context |-> Undefined,
     entities |-> NoEntities]

\* A getService that returns the cached instance whenever there is one.
UsesCacheIgnoringRefresh(refresh, svc) == svc # 0

\* if (!refresh && AuthorizationService.service)
UsesCache(refresh, svc) == ~refresh /\ svc # 0

LogEntry(authorizationConfig, refresh, loads, result) ==
    [authorizationConfig |-> authorizationConfig, refresh |-> refresh,
     loads |-> loads, result |-> result]

Rejected(name) == [kind |-> "error", name |-> name]

Resolved(id) == [kind |-> "instance", id |-> id]

CanCallGetService == Len(getServiceLog) < MaxGetService

\* getService returns the cached instance.
GetServiceCached(authorizationConfig, refresh) ==
    /\ CanCallGetService
    /\ UsesCache(refresh, service)
    /\ getServiceLog' = Append(getServiceLog,
          LogEntry(authorizationConfig, refresh, <<>>, Resolved(service)))
    /\ UNCHANGED <<service, instances, calls, scanVars, userVars>>

\* A getService that reads both files before it reports a failed load.
GetServicePolicyMissingAfterSchema(authorizationConfig, refresh) ==
    /\ CanCallGetService
    /\ ~UsesCache(refresh, service)
    /\ \E schema \in SchemaTexts \cup {LoadFailed} :
          getServiceLog' = Append(getServiceLog,
              LogEntry(authorizationConfig, refresh,
                       <<[file |-> POLICY_FILE_NAME, gave |-> LoadFailed],
                         [file |-> SCHEMA_FILE_NAME, gave |-> schema]>>,
                       IF schema = LoadFailed
                       THEN Rejected("MissingAuthorizationSchemaError")
                       ELSE Rejected("MissingAuthorizationPolicyError")))
    /\ UNCHANGED <<service, instances, calls, scanVars, userVars>>

\* getService: loading policies.cedar throws.
GetServicePolicyMissing(authorizationConfig, refresh) ==
    /\ CanCallGetService
    /\ ~UsesCache(refresh, service)
    /\ getServiceLog' = Append(getServiceLog,
          LogEntry(authorizationConfig, refresh,
                   <<[file |-> POLICY_FILE_NAME, gave |-> LoadFailed]>>,
                   Rejected("MissingAuthorizationPolicyError")))
    /\ UNCHANGED <<service, instances, calls, scanVars, userVars>>

\* getService: policies.cedar loads, loading schema.cedarschema throws.
GetServiceSchemaMissing(authorizationConfig, refresh, policy) ==
    /\ CanCallGetService
    /\ ~UsesCache(refresh, service)
    /\ getServiceLog' = Append(getServiceLog,
          LogEntry(authorizationConfig, refresh,
                   <<[file |-> POLICY_FILE_NAME, gave |-> policy],
                     [file |-> SCHEMA_FILE_NAME, gave |-> LoadFailed]>>,
                   Rejected("MissingAuthorizationSchemaError")))
    /\ UNCHANGED <<service, instances, calls, scanVars, userVars>>

\* A getService that empties the static field when the constructor throws.
GetServiceConstructorThrowsClearingCache(authorizationConfig, refresh, policy, schema) ==
    /\ CanCallGetService
    /\ ~UsesCache(refresh, service)
    /\ splitCedarPolicies(policy).threw
    /\ getServiceLog' = Append(getServiceLog,
          LogEntry(authorizationConfig, refresh,
                   <<[file |-> POLICY_FILE_NAME, gave |-> policy],
                     [file |-> SCHEMA_FILE_NAME, gave |-> schema]>>,
                   Rejected("Error")))
    /\ service' = 0
    /\ UNCHANGED <<instances, calls, scanVars, userVars>>

\* getService: both files load, the constructor's splitCedarPolicies throws
\* before the static field is assigned.
GetServiceConstructorThrows(authorizationConfig, refresh, policy, schema) ==
    /\ CanCallGetService
    /\ ~UsesCache(refresh, service)
    /\ splitCedarPolicies(policy).threw
    /\ getServiceLog' = Append(getServiceLog,
          LogEntry(authorizationConfig, refresh,
                   <<[file |-> POLICY_FILE_NAME, gave |-> policy],
                     [file |-> SCHEMA_FILE_NAME, gave |-> schema]>>,
                   Rejected("Error")))
    /\ UNCHANGED <<service, instances, calls, scanVars, userVars>>

\* getService: both files load, a new instance is built and cached.
GetServiceCreated(authorizationConfig, refresh, policy, schema) ==
    /\ CanCallGetService
    /\ ~UsesCache(refresh, service)
    /\ ~splitCedarPolicies(policy).threw
    /\ instances' = Append(instances,
          NewAuthorizationService(policy, schema, authorizationConfig))
    /\ service' = Len(instances) + 1
    /\ getServiceLog' = Append(getServiceLog,
          LogEntry(authorizationConfig, refresh,
                   <<[file |-> POLICY_FILE_NAME, gave |-> policy],
                     [file |-> SCHEMA_FILE_NAME, gave |-> schema]>>,
                   Resolved(Len(instances) + 1)))
    /\ UNCHANGED <<calls, scanVars, userVars>>

\* What one loadFileAsString call does: it throws, or gives a text.
Threw(empty) == [threw |-> TRUE, value |-> empty]

Gave(text) == [threw |-> FALSE, value |-> text]

\* What loadFileAsString can do for each file.
PolicyLoads == {Gave(t) : t \in PolicyTexts} \cup {Threw(<<>>)}

SchemaLoads == {Gave(t) : t \in SchemaTexts} \cup {Threw("")}

\* The record of one load in the log.
LoadOf(file, load) ==
    [file |-> file, gave |-> IF load.threw THEN LoadFailed ELSE load.value]

\* getService as a function of the static field, the instances built so far,
\* its arguments and what loadFileAsString does for each of the two files:
\* the new static field and instances, the loads made in order, and what
\* the call settles with.
getService(svc, insts, authorizationConfig, refresh, policyLoad, schemaLoad) ==
    IF UsesCache(refresh, svc)
    THEN [service |-> svc, instances |-> insts, loads |-> <<>>,
          result |-> Resolved(svc)]
    ELSE IF policyLoad.threw
    THEN [service |-> svc, instances |-> insts,
          loads |-> <<LoadOf(POLICY_FILE_NAME, policyLoad)>>,
          result |-> Rejected("MissingAuthorizationPolicyError")]
    ELSE IF schemaLoad.threw
    THEN [service |-> svc, instances |-> insts,
          loads |-> <<LoadOf(POLICY_FILE_NAME, policyLoad),
                      LoadOf(SCHEMA_FILE_NAME, schemaLoad)>>,
          result |-> Rejected("MissingAuthorizationSchemaError")]
    ELSE IF splitCedarPolicies(policyLoad.value).threw
    THEN [service |-> svc, instances |-> insts,
          loads |-> <<LoadOf(POLICY_FILE_NAME, policyLoad),
                      LoadOf(SCHEMA_FILE_NAME, schemaLoad)>>,
          result |-> Rejected("Error")]
    ELSE [service |-> Len(insts) + 1,
          instances |-> Append(insts,
              NewAuthorizationService(policyLoad.value, schemaLoad.value,
                                      authorizationConfig)),
          loads |-> <<LoadOf(POLICY_FILE_NAME, policyLoad),
                      LoadOf(SCHEMA_FILE_NAME, schemaLoad)>>,
          result |-> Resolved(Len(insts) + 1)]

InitService ==
    /\ service = 0
    /\ instances = <<>>
    /\ getServiceLog = <<>>
    /\ calls = <<>>
    /\ UserIdle
    /\ ScanIdle

NextService ==
    \/ \E c \in Configs, r \in BOOLEAN : GetServiceCached(c, r)
    \/ \E c \in Configs, r \in BOOLEAN : GetServicePolicyMissing(c, r)
    \/ \E c \in Configs, r \in BOOLEAN, p \in PolicyTexts :
          GetServiceSchemaMissing(c, r, p)
    \/ \E c \in Configs, r \in BOOLEAN, p \in PolicyTexts, sc \in SchemaTexts :
          GetServiceConstructorThrows(c, r, p, sc)
    \/ \E c \in Configs, r \in BOOLEAN, p \in PolicyTexts, sc \in SchemaTexts :
          GetServiceCreated(c, r, p, sc)

SpecService == InitService /\ [][NextService]_vars

\* Longer documents over the characters the string and comment rules test
\* for, without whitespace.
LongMaxLen == 6

LongAlphabet == {";", "\"", "/", "*", "\\", "a"}

LongDocs == UNION {[1..n -> LongAlphabet] : n \in 0..LongMaxLen}

InitLong ==
    /\ policyFile \in LongDocs
    /\ i = 0
    /\ buf = <<>>
    /\ inString = FALSE
    /\ inLineComment = FALSE
    /\ inBlockComment = FALSE
    /\ prev = ""
    /\ results = <<>>
    /\ pc = "scan"
    /\ finalResults = <<>>
    /\ NonScanIdle

SpecLong == InitLong /\ [][Next]_vars

-----------------------------------------------------------------------------
\* user-details-service.ts: the module-level userName and roles, set from
\* the Cognito claims of an API Gateway event.  An event is modelled by the
\* parts the code reads: its headers and its requestContext.authorizer.

\* JavaScript truthiness of a string or undefined.
Truthy(v) == v # Undefined /\ v # ""

\* Values of claims["cognito:username"] when the claim is there.
UserNames == {"", "alice"}

\* claims["cognito:groups"]: absent, one string, or an array of strings.
NoGroups == [type |-> "undefined", text |-> "", items |-> <<>>]

StringGroup(text) == [type |-> "string", text |-> text, items |-> <<>>]

ArrayGroup(items) == [type |-> "object", text |-> "", items |-> items]

GroupClaims ==
    {NoGroups, StringGroup("admin"), ArrayGroup(<<>>),
     ArrayGroup(<<"admin", "user">>)}

\* requestContext.authorizer: absent, an object without a claims property
\* (what a Lambda authorizer or IAM authorization gives), or an object with
\* Cognito claims.
NoAuthorizer ==
    [present |-> FALSE, hasClaims |-> FALSE, username |-> Undefined,
     groups |-> NoGroups]

AuthorizerWithoutClaims ==
    [present |-> TRUE, hasClaims |-> FALSE, username |-> Undefined,
     groups |-> NoGroups]

AuthorizerWith(username, groups) ==
    [present |-> TRUE, hasClaims |-> TRUE, username |-> username,
     groups |-> groups]

Authorizers ==
    {NoAuthorizer, AuthorizerWithoutClaims}
        \cup {AuthorizerWith(u, g) : u \in UserNames \cup {Undefined},
                                     g \in GroupClaims}

\* event.headers: absent, or an object in which cedar-refresh is absent or
\* has a value.
NoHeaders == [present |-> FALSE, cedarRefresh |-> Undefined]

HeadersWith(value) == [present |-> TRUE, cedarRefresh |-> value]

Headers == {NoHeaders} \cup {HeadersWith(v) : v \in {Undefined, "", "true", "false"}}

Events == [headers : Headers, authorizer : Authorizers]

\* Events a handler passes to setUserDetails itself; no header is read.
HandlerEvents == {e \in Events : e.headers = NoHeaders}

\* setUserDetails as a function of the stored details and the event: whether
\* it threw, and the details stored afterwards.  Reading a claim of an
\* authorizer that has no claims property is a TypeError, raised before
\* anything is assigned.
setUserDetails(un, rl, authenticatedEvent) ==
    IF ~authenticatedEvent.authorizer.present
    THEN [threw |-> FALSE, userName |-> un, roles |-> rl]
    ELSE IF ~authenticatedEvent.authorizer.hasClaims
    THEN [threw |-> TRUE, userName |-> un, roles |-> rl]
    ELSE [threw |-> FALSE,
          userName |-> authenticatedEvent.authorizer.username,
          roles |->
              IF authenticatedEvent.authorizer.groups.type = "string"
              THEN RolesOf(<<authenticatedEvent.authorizer.groups.text>>)
              ELSE IF authenticatedEvent.authorizer.groups.type = "object"
              THEN RolesOf(authenticatedEvent.authorizer.groups.items)
              ELSE NoRoles]

getUserName == userName

getRoles == roles

\* How a call ended, other than by a typed rejection.
ReturnedVoid == [kind |-> "returned"]

ReturnedValue(value) == [kind |-> "returned", value |-> value]

ErrorWith(message) == [kind |-> "error", name |-> "Error", message |-> message]

SetUserDetails(authenticatedEvent) ==
    LET u == setUserDetails(userName, roles, authenticatedEvent)
    IN  /\ userName' = u.userName
        /\ roles' = u.roles
        /\ lastCall' = [op |-> "setUserDetails", event |-> authenticatedEvent,
                        outcome |-> IF u.threw THEN Rejected("TypeError")
                                    ELSE ReturnedVoid]
        /\ UNCHANGED <<service, instances, getServiceLog, calls, scanVars>>

\* A resetDetails that clears the user name only.
ResetDetailsKeepingRoles ==
    /\ userName' = Undefined
    /\ roles' = roles
    /\ lastCall' = [op |-> "resetDetails"]
    /\ UNCHANGED <<service, instances, getServiceLog, calls, scanVars>>

ResetDetails ==
    /\ userName' = Undefined
    /\ roles' = NoRoles
    /\ lastCall' = [op |-> "resetDetails"]
    /\ UNCHANGED <<service, instances, getServiceLog, calls, scanVars>>

-----------------------------------------------------------------------------
\* AuthorizationService: the request builder and isAuthorized.  `this` is
\* an element of instances.

\* Most instances built.
MaxInstances == 2

\* Arguments of setAction and setResource.
ActionIds == {"", "getOrder"}

ResourceIds == {"order-123"}

SetAction(o, action) ==
    /\ o \in DOMAIN instances
    /\ instances' = [instances EXCEPT ![o].action = action]
    /\ lastCall' = [op |-> "setAction", instance |-> o, arg |-> action]
    /\ UNCHANGED <<service, userName, roles, getServiceLog, calls, scanVars>>

SetResource(o, resource) ==
    /\ o \in DOMAIN instances
    /\ instances' = [instances EXCEPT ![o].resource = resource]
    /\ lastCall' = [op |-> "setResource", instance |-> o, arg |-> resource]
    /\ UNCHANGED <<service, userName, roles, getServiceLog, calls, scanVars>>

\* Entities a caller adds: Cedar entity JSON without attributes or parents.
Entity(id) ==
    [uid |-> [type |-> <<"OrderService", "Order">>, id |-> id],
     attrs |-> <<>>, parents |-> <<>>]

\* The entities addEntity is called with.
EntityInputs == {Entity("order-1")}

\* The number of entities the instances are brought to hold between them.
MaxEntities == 2

RECURSIVE TotalEntities(_)
TotalEntities(insts) ==
    IF insts = <<>> THEN 0
    ELSE Len(Head(insts).entities.items) + TotalEntities(Tail(insts))

\* The arrays setEntities is called with, each call with an array of its own.
EntityLists == {<<>>, <<Entity("order-2")>>}

\* An addEntity that puts the entity in front of the list.
AddEntityInFront(o, entity) ==
    /\ o \in DOMAIN instances
    /\ TotalEntities(instances) < MaxEntities
    /\ instances' = [instances EXCEPT ![o].entities =
                        EntitiesOf(<<entity>> \o @.items)]
    /\ lastCall' = [op |-> "addEntity", instance |-> o, arg |-> entity]
    /\ UNCHANGED <<service, userName, roles, getServiceLog, calls, scanVars>>

\* addEntity: if (!this.entities) this.entities = []; this.entities.push(entity)
AddEntity(o, entity) ==
    /\ o \in DOMAIN instances
    /\ TotalEntities(instances) < MaxEntities
    /\ instances' = [instances EXCEPT ![o].entities =
                        EntitiesOf(Append(@.items, entity))]
    /\ lastCall' = [op |-> "addEntity", instance |-> o, arg |-> entity]
    /\ UNCHANGED <<service, userName, roles, getServiceLog, calls, scanVars>>

\* setEntities: this.entities = entities
SetEntities(o, entities) ==
    /\ o \in DOMAIN instances
    /\ TotalEntities(instances) - Len(instances[o].entities.items)
          + Len(entities) <= MaxEntities
    /\ instances' = [instances EXCEPT ![o].entities = EntitiesOf(entities)]
    /\ lastCall' = [op |-> "setEntities", instance |-> o, arg |-> entities]
    /\ UNCHANGED <<service, userName, roles, getServiceLog, calls, scanVars>>

Passed == [threw |-> FALSE, name |-> ""]

Throws(name) == [threw |-> TRUE, name |-> name]

\* A validation that asks for the action before the user details.
validateAuthorizationPropertiesActionFirst(this, un, rl) ==
    IF ~Truthy(this.action)
    THEN Throws("MissingAuthorizationActionError")
    ELSE IF ~Truthy(un) \/ ~rl.defined
    THEN Throws("MissingAuthenticatedUserDetailsError")
    ELSE IF ~Truthy(this.resource)
    THEN Throws("MissingAuthorizationResourceError")
    ELSE Passed

validateAuthorizationProperties(this, un, rl) ==
    IF ~Truthy(un) \/ ~rl.defined
    THEN Throws("MissingAuthenticatedUserDetailsError")
    ELSE IF ~Truthy(this.action)
    THEN Throws("MissingAuthorizationActionError")
    ELSE IF ~Truthy(this.resource)
    THEN Throws("MissingAuthorizationResourceError")
    ELSE Passed

\* `${namespace}${authorizationConfig[kind]}`, and `${namespace}Action`.
TypeOf(this, kind) == <<this.authorizationConfig, kind>>

\* Schema texts JSON.parse accepts.
JsonSchemaTexts == {"{}"}

createSchema(this) ==
    [json |-> this.schema \in JsonSchemaTexts, value |-> this.schema]

\* getRoles()?.map(...) ?? []
RoleUids(this, rl) ==
    IF rl.defined
    THEN [k \in 1..Len(rl.items) |->
             [type |-> TypeOf(this, "roleType"), id |-> rl.items[k]]]
    ELSE <<>>

constructUserEntity(this, un, rl) ==
    [uid |-> [type |-> TypeOf(this, "principleType"), id |-> un],
     attrs |-> <<>>,
     parents |-> RoleUids(this, rl)]

constructRoleEntities(this, rl) ==
    [k \in 1..Len(RoleUids(this, rl)) |->
        [uid |-> RoleUids(this, rl)[k], attrs |-> <<>>, parents |-> <<>>]]

\* build: the error it throws, or the request it returns.
build(this, un, rl) ==
    LET v == validateAuthorizationProperties(this, un, rl)
    IN  IF v.threw THEN [threw |-> TRUE, name |-> v.name]
        ELSE IF ~Truthy(un)
        THEN [threw |-> TRUE, name |-> "MissingAuthenticatedUserDetailsError"]
        ELSE IF ~Truthy(this.action)
        THEN [threw |-> TRUE, name |-> "MissingAuthorizationActionError"]
        ELSE IF ~Truthy(this.resource)
        THEN [threw |-> TRUE, name |-> "MissingAuthorizationResourceError"]
        ELSE [threw |-> FALSE, name |-> "",
              request |->
                [principal |-> [type |-> TypeOf(this, "principleType"),
                                id |-> un],
                 action |-> [type |-> TypeOf(this, "Action"),
                             id |-> this.action],
                 resource |-> [type |-> TypeOf(this, "resourceType"),
                               id |-> this.resource],
                 context |-> IF this.context = Undefined THEN <<>>
                             ELSE this.context,
                 schema |-> createSchema(this),
                 validateRequest |-> TRUE,
                 policies |-> [staticPolicies |-> this.policy],
                 entities |-> <<constructUserEntity(this, un, rl)>>
                              \o (IF this.entities.defined
                                  THEN this.entities.items ELSE <<>>)
                              \o constructRoleEntities(this, rl)]]

\* What cedar.isAuthorized can answer: a failure with error messages, or a
\* success with a decision.
Failure(errors) == [type |-> "failure", errors |-> errors, decision |-> ""]

Success(decision) == [type |-> "success", errors |-> <<>>, decision |-> decision]

EngineAnswers ==
    {Failure(<<<<"e", "1">>, <<"e", "2">>>>), Success("allow"), Success("deny")}

\* An isAuthorized that lets through whatever the engine does not deny.
isAuthorizedUnlessDenied(this, un, rl, authResult) ==
    LET b == build(this, un, rl)
    IN  IF b.threw
        THEN [engineCalls |-> <<>>, outcome |-> Rejected(b.name)]
        ELSE [engineCalls |-> <<[request |-> b.request, gave |-> authResult]>>,
              outcome |-> ReturnedValue(authResult.decision # "deny")]

\* isAuthorized as a function of the instance, the stored user details and
\* the engine's answer: the engine calls made, and how the call ended.
isAuthorized(this, un, rl, authResult) ==
    LET b == build(this, un, rl)
    IN  IF b.threw
        THEN [engineCalls |-> <<>>, outcome |-> Rejected(b.name)]
        ELSE [engineCalls |-> <<[request |-> b.request, gave |-> authResult]>>,
              outcome |->
                  IF authResult.type = "failure"
                  THEN ErrorWith(JoinWith(authResult.errors, <<"\n">>))
                  ELSE ReturnedValue(authResult.decision = "allow")]

\* An isAuthorized that hands the builder back empty after an engine call.
IsAuthorizedResettingEntities(o, authResult) ==
    /\ o \in DOMAIN instances
    /\ LET a == isAuthorized(instances[o], getUserName, getRoles, authResult)
       IN  /\ lastCall' = [op |-> "isAuthorized", instance |-> o,
                            engineCalls |-> a.engineCalls, outcome |-> a.outcome]
           /\ instances' = IF a.engineCalls = <<>> THEN instances
                            ELSE [instances EXCEPT ![o].entities = NoEntities]
    /\ UNCHANGED <<service, userName, roles, getServiceLog, calls, scanVars>>

IsAuthorized(o, authResult) ==
    /\ o \in DOMAIN instances
    /\ LET a == isAuthorized(instances[o], getUserName, getRoles, authResult)
       IN  lastCall' = [op |-> "isAuthorized", instance |-> o,
                        engineCalls |-> a.engineCalls, outcome |-> a.outcome]
    /\ UNCHANGED <<service, instances, userName, roles, getServiceLog, calls,
                   scanVars>>

\* A handler's own getService call.
GetServiceCall(authorizationConfig, refresh, policyLoad, schemaLoad) ==
    LET g == getService(service, instances, authorizationConfig, refresh,
                        policyLoad, schemaLoad)
    IN  /\ Len(g.instances) <= MaxInstances
        /\ service' = g.service
        /\ instances' = g.instances
        /\ lastCall' = [op |-> "getService",
                        authorizationConfig |-> authorizationConfig,
                        refresh |-> refresh, loads |-> g.loads,
                        result |-> g.result]
        /\ UNCHANGED <<userName, roles, getServiceLog, calls, scanVars>>

\* The config the application gives to loadCedarAuthorization and to its
\* own getService calls.
MiddlewareConfig == "configA"

InitAuth ==
    /\ service = 0
    /\ instances = <<>>
    /\ getServiceLog = <<>>
    /\ calls = <<>>
    /\ UserIdle
    /\ ScanIdle

NextAuth ==
    \/ \E e \in HandlerEvents : SetUserDetails(e)
    \/ ResetDetails
    \/ \E r \in BOOLEAN, p \in PolicyLoads, sc \in SchemaLoads :
          GetServiceCall(MiddlewareConfig, r, p, sc)
    \/ \E o \in DOMAIN instances, a \in ActionIds : SetAction(o, a)
    \/ \E o \in DOMAIN instances, r \in ResourceIds : SetResource(o, r)
    \/ \E o \in DOMAIN instances, a \in EngineAnswers : IsAuthorized(o, a)

SpecAuth == InitAuth /\ [][NextAuth]_vars

\* The builder methods of the instances getService hands out, called by a
\* handler of an authenticated user between its authorization checks, with
\* policy and schema files that load.
BuilderEvent ==
    [headers |-> NoHeaders,
     authorizer |-> AuthorizerWith("alice", StringGroup("admin"))]

BuilderActionIds == {"getOrder"}

BuilderAnswers == {Failure(<<<<"e", "1">>>>), Success("allow")}

NextBuilder ==
    \/ SetUserDetails(BuilderEvent)
    \/ \E r \in BOOLEAN :
          GetServiceCall(MiddlewareConfig, r, Gave(<<"a", ";">>), Gave("schema"))
    \/ \E o \in DOMAIN instances, a \in BuilderActionIds : SetAction(o, a)
    \/ \E o \in DOMAIN instances, r \in ResourceIds : SetResource(o, r)
    \/ \E o \in DOMAIN instances, e \in EntityInputs : AddEntity(o, e)
    \/ \E o \in DOMAIN instances, es \in EntityLists : SetEntities(o, es)
    \/ \E o \in DOMAIN instances, a \in BuilderAnswers : IsAuthorized(o, a)

SpecBuilder == InitAuth /\ [][NextBuilder]_vars

-----------------------------------------------------------------------------
\* authorization-middleware.ts: the before hook of loadCedarAuthorization.

\* request.event.headers?.['cedar-refresh']
\*     ? request.event.headers['cedar-refresh'] === 'true' : false
Refresh(event) ==
    IF event.headers.present /\ Truthy(event.headers.cedarRefresh)
    THEN event.headers.cedarRefresh = "true"
    ELSE FALSE

SetUserDetailsCalled(event, threw) ==
    [fn |-> "setUserDetails", event |-> event, threw |-> threw]

GetServiceCalled(authorizationConfig, refresh, g) ==
    [fn |-> "getService", authorizationConfig |-> authorizationConfig,
     refresh |-> refresh, loads |-> g.loads, result |-> g.result]

\* One run of the hook: the calls it makes in order, and how it settles.
Before(authorizationConfig, event, policyLoad, schemaLoad) ==
    LET refresh == Refresh(event)
        u == setUserDetails(userName, roles, event)
        g == getService(service, instances, authorizationConfig, refresh,
                        policyLoad, schemaLoad)
    IN  /\ userName' = u.userName
        /\ roles' = u.roles
        /\ IF u.threw
           THEN /\ lastCall' = [op |-> "before", event |-> event,
                                calls |-> <<SetUserDetailsCalled(event, TRUE)>>,
                                outcome |-> Rejected("TypeError")]
                /\ UNCHANGED <<service, instances>>
           ELSE /\ Len(g.instances) <= MaxInstances
                /\ service' = g.service
                /\ instances' = g.instances
                /\ lastCall' = [op |-> "before", event |-> event,
                                calls |-> <<SetUserDetailsCalled(event, FALSE),
                                            GetServiceCalled(authorizationConfig,
                                                             refresh, g)>>,
                                outcome |-> IF g.result.kind = "error"
                                            THEN g.result ELSE ReturnedVoid]
        /\ UNCHANGED <<getServiceLog, calls, scanVars>>

InitHook ==
    /\ service = 0
    /\ instances = <<>>
    /\ getServiceLog = <<>>
    /\ calls = <<>>
    /\ UserIdle
    /\ ScanIdle

NextHook ==
    \/ \E e \in Events, p \in PolicyLoads, sc \in SchemaLoads :
          Before(MiddlewareConfig, e, p, sc)
    \/ ResetDetails

SpecHook == InitHook /\ [][NextHook]_vars

-----------------------------------------------------------------------------
\* Vocabulary of the properties

HasNonWhiteSpace(s) == \E k \in 1..Len(s) : s[k] \notin WhiteSpace

Finished == pc \in {"thrown", "returned"}

InComment == inLineComment \/ inBlockComment

\* The values of the returned mapping, in iteration order.
ReturnedStatements == [k \in 1..Len(finalResults) |-> finalResults[k][2]]

ReturnedKeys == [k \in 1..Len(finalResults) |-> finalResults[k][1]]

-----------------------------------------------------------------------------
\* C1: a `;` scanned while inside a double-quoted string never ends a
\* statement: that step appends the `;` to the pending buffer, pushes no
\* statement, and leaves the scanner inside the string.
C1_SemicolonInStringDoesNotSplit ==
    [][(InLoop /\ inString /\ ch = ";")
          => /\ buf' = Append(buf, ";")
             /\ results' = results
             /\ inString'
             /\ i' = i + 1]_vars

\* C1 witness: a returned statement holds a `;` between two quotes, before
\* the `;` that closed it.
C1_Witness ==
    /\ pc = "returned"
    /\ \E k \in 1..Len(ReturnedStatements) :
          LET t == ReturnedStatements[k] IN
          \E a, b, c \in 1..Len(t) :
             /\ a < b /\ b < c /\ c < Len(t)
             /\ t[a] = "\"" /\ t[b] = ";" /\ t[c] = "\""

\* C2: inside a line comment or a block comment no other rule applies: the
\* step appends the one character scanned, pushes no statement, does not
\* toggle string mode, does not enter the other comment mode, advances by
\* exactly one character, and leaves the comment only on that comment's own
\* exit sequence (newline; `/` preceded by `*`).
C2_CommentSuspendsOtherRules ==
    [][(InLoop /\ InComment)
          => /\ buf' = Append(buf, ch)
             /\ results' = results
             /\ inString' = inString
             /\ i' = i + 1
             /\ inLineComment
                  => /\ inLineComment' = (ch # "\n")
                     /\ inBlockComment' = inBlockComment
             /\ (inBlockComment /\ ~inLineComment)
                  => /\ inBlockComment' = ~(prev = "*" /\ ch = "/")
                     /\ inLineComment' = FALSE]_vars

\* C2 witness: the scanner is still inside a block comment after scanning a
\* `;` and a `/*` pair there, with nothing pushed.
C2_Witness ==
    /\ pc = "scan"
    /\ inBlockComment /\ ~inString /\ ~inLineComment
    /\ results = <<>>
    /\ \E a, c \in 3..Len(buf) :
          /\ c + 1 <= Len(buf)
          /\ buf[a] = ";"
          /\ buf[c] = "/" /\ buf[c + 1] = "*"

\* C3: the call ends only after the whole document is scanned; it fails
\* with the trailing-content error exactly when the pending buffer then
\* holds a non-whitespace character, and returns a mapping otherwise.
C3_ThrowsIffTrailingContent ==
    Finished =>
        /\ i >= Len(policyFile)
        /\ (pc = "thrown") = HasNonWhiteSpace(buf)
        /\ (pc = "returned") = ~HasNonWhiteSpace(buf)

\* C3 witness: a call that failed after one statement had been pushed, on a
\* buffer that has whitespace around its content.
C3_Witness ==
    /\ pc = "thrown"
    /\ Len(results) = 1
    /\ Len(buf) >= 2
    /\ buf[1] \in WhiteSpace
    /\ HasNonWhiteSpace(buf)

\* C3 second witness: a call that returned with a whitespace-only buffer.
C3_WitnessReturn ==
    /\ pc = "returned"
    /\ Len(buf) > 0
    /\ Len(results) > 0

\* C4 (as claimed): a statement text S with non-whitespace content and no
\* `;`, followed by `;;`, returns exactly one entry, S with one `;`; and no
\* returned entry is a segment without non-whitespace content before its
\* terminator.
C4_ConsecutiveTerminatorsDiscarded ==
    pc = "returned" =>
        /\ \A n \in 1..Len(policyFile) :
              LET S == SubSeq(policyFile, 1, n) IN
              ( /\ policyFile = S \o <<";", ";">>
                /\ HasNonWhiteSpace(S)
                /\ \A k \in 1..n : S[k] # ";" )
              => ReturnedStatements = <<Trim(S \o <<";">>)>>
        /\ \A k \in 1..Len(ReturnedStatements) :
              LET t == ReturnedStatements[k] IN
              HasNonWhiteSpace(SubSeq(t, 1, Len(t) - 1))

\* C5 (as claimed): a document made only of comments and whitespace returns
\* an empty mapping.
RECURSIVE OnlyComments(_)
OnlyComments(s) ==
    IF s = <<>> THEN TRUE
    ELSE IF Head(s) \in WhiteSpace THEN OnlyComments(Tail(s))
    ELSE IF Len(s) >= 2 /\ s[1] = "/" /\ s[2] = "/"
    THEN \* a line comment runs to the first newline, or to the end
         IF \E k \in 3..Len(s) : s[k] = "\n"
         THEN LET e == CHOOSE k \in 3..Len(s) :
                          s[k] = "\n" /\ \A j \in 3..(k - 1) : s[j] # "\n"
              IN OnlyComments(SubSeq(s, e + 1, Len(s)))
         ELSE TRUE
    ELSE IF Len(s) >= 2 /\ s[1] = "/" /\ s[2] = "*"
    THEN \* a block comment runs to the first `*/` after its opener
         IF \E k \in 3..(Len(s) - 1) : s[k] = "*" /\ s[k + 1] = "/"
         THEN LET e == CHOOSE k \in 3..(Len(s) - 1) :
                          /\ s[k] = "*" /\ s[k + 1] = "/"
                          /\ \A j \in 3..(k - 1) : ~(s[j] = "*" /\ s[j + 1] = "/")
              IN OnlyComments(SubSeq(s, e + 2, Len(s)))
         ELSE FALSE
    ELSE FALSE

-----------------------------------------------------------------------------
\* A `//` or `/*` pair in s.
HasCommentOpener(s) ==
    \E k \in 1..(Len(s) - 1) : s[k] = "/" /\ s[k + 1] \in {"/", "*"}

\* The characters of the document after its last `;` character (the whole
\* document when it has none).
AfterLastSemicolon ==
    LET ks == {k \in 1..Len(policyFile) : policyFile[k] = ";"}
        last == IF ks = {} THEN 0 ELSE CHOOSE k \in ks : \A j \in ks : j <= k
    IN SubSeq(policyFile, last + 1, Len(policyFile))

\* C6: a comment after the last structural `;` makes the call fail, even
\* when statements were pushed before it.  Stated on the document (a comment
\* opener after its last `;` character) and on the scan state (a comment
\* opener in the buffer that is pending after the last push): in both cases
\* the call ends with the trailing-content error and returns no mapping.
C6_CommentAfterLastTerminatorThrows ==
    Finished =>
        /\ (Len(AfterLastSemicolon) < Len(policyFile)
              /\ HasCommentOpener(AfterLastSemicolon))
             => (pc = "thrown" /\ finalResults = <<>>)
        /\ (Len(results) >= 1 /\ HasCommentOpener(buf))
             => (pc = "thrown" /\ finalResults = <<>>)

\* C6 witness: a failed call with one statement pushed and, after its `;`,
\* whitespace and a closed block comment.
C6_Witness ==
    /\ pc = "thrown"
    /\ Len(results) = 1
    /\ ~inBlockComment /\ ~inLineComment /\ ~inString
    /\ Len(buf) = 4
    /\ SubSeq(buf, 1, 2) = <<"/", "*">>
    /\ buf = AfterLastSemicolon

\* C6 second witness: a failed call whose trailing line comment was closed by
\* its newline.
C6_WitnessLine ==
    /\ pc = "thrown"
    /\ Len(results) = 1
    /\ ~inLineComment
    /\ buf = <<"/", "/", "\n">>

\* C7: while the scanner is inside a string, a line comment or a block
\* comment the pending buffer holds non-whitespace content, so a scan that
\* ends in one of these modes fails with the trailing-content error.
C7_UnterminatedIsTrailingContent ==
    (inString \/ inLineComment \/ inBlockComment) =>
        /\ HasNonWhiteSpace(buf)
        /\ Finished => pc = "thrown"

\* C7 witness: a call that failed at the end of the document while inside a
\* string that holds a `;`.
C7_Witness ==
    /\ pc = "thrown"
    /\ inString
    /\ Len(results) = 1
    /\ \E k \in 2..Len(buf) : buf[k] = ";"

\* C7 second witness: a call that failed inside a block comment.
C7_WitnessBlock == pc = "thrown" /\ inBlockComment /\ Len(buf) > 2

\* C7 third witness: a call that failed inside a line comment.
C7_WitnessLine == pc = "thrown" /\ inLineComment /\ Len(buf) > 2

\* The identifiers policy_0, policy_1, ... written out.
ExpectedKeys ==
    <<"policy_0", "policy_1", "policy_2", "policy_3", "policy_4",
      "policy_5", "policy_6", "policy_7", "policy_8", "policy_9">>

\* C8: on success the keys are exactly policy_0 .. policy_(n-1) for the n
\* retained statements, in that iteration order, each bound to the statement
\* pushed in that position.
C8_DenseZeroBasedIdentifiers ==
    pc = "returned" =>
        /\ Len(finalResults) = Len(results)
        /\ \A k \in 1..Len(finalResults) :
              /\ finalResults[k][1] = ExpectedKeys[k]
              /\ finalResults[k][2] = results[k]
        /\ \A j, k \in 1..Len(finalResults) :
              j # k => finalResults[j][1] # finalResults[k][1]

\* C8 witness: a returned mapping of three entries.
C8_Witness ==
    /\ pc = "returned"
    /\ Len(finalResults) = 3
    /\ finalResults[3][1] = "policy_2"

\* The statements ss occur in the document in this order, each as a
\* contiguous substring that starts at or after position from and ends
\* before the next one starts.
RECURSIVE OccurInOrder(_, _)
OccurInOrder(ss, from) ==
    IF ss = <<>> THEN TRUE
    ELSE LET t == Head(ss)
             ps == {p \in from..(Len(policyFile) - Len(t) + 1) :
                       SubSeq(policyFile, p, p + Len(t) - 1) = t}
         IN IF ps = {} THEN FALSE
            ELSE LET p == CHOOSE q \in ps : \A r \in ps : q <= r
                 IN OccurInOrder(Tail(ss), p + Len(t))

CountOf(c, s) == Cardinality({k \in 1..Len(s) : s[k] = c})

\* C9: the returned statements are contiguous substrings of the document
\* that follow one another in source order without overlap; nothing is
\* merged or dropped: in a document with no quote and no slash every `;`
\* yields its own statement, textually identical ones included.
C9_SourceOrder ==
    pc = "returned" =>
        /\ OccurInOrder(ReturnedStatements, 1)
        /\ (CountOf("\"", policyFile) = 0 /\ CountOf("/", policyFile) = 0)
             => Len(ReturnedStatements) = CountOf(";", policyFile)

\* C9 witness: two textually identical statements returned after a different
\* one.
C9_Witness ==
    /\ pc = "returned"
    /\ Len(ReturnedStatements) = 3
    /\ ReturnedStatements[1] # ReturnedStatements[2]
    /\ ReturnedStatements[2] = ReturnedStatements[3]

\* C10: every returned statement is free of leading and trailing whitespace
\* and ends with the `;` that closed it; a statement that begins with `;`
\* is that `;` alone, so no statement starts with the terminator of the one
\* before.
C10_TrimmedAndTerminated ==
    pc = "returned" =>
        \A k \in 1..Len(ReturnedStatements) :
            LET t == ReturnedStatements[k] IN
            /\ Len(t) >= 1
            /\ t[1] \notin WhiteSpace
            /\ t[Len(t)] = ";"
            /\ t[1] = ";" => t = <<";">>

\* C10 witness: two statements returned from a document with whitespace
\* before each of them.
C10_Witness ==
    /\ pc = "returned"
    /\ Len(ReturnedStatements) = 2
    /\ policyFile[1] \in WhiteSpace
    /\ Len(ReturnedStatements[1]) + Len(ReturnedStatements[2]) + 2 = Len(policyFile)
    /\ Len(ReturnedStatements[2]) = 2

-----------------------------------------------------------------------------
RECURSIVE Concat(_)
Concat(ss) == IF ss = <<>> THEN <<>> ELSE Head(ss) \o Concat(Tail(ss))

NonWhiteSpaceOf(s) == SelectSeq(s, LAMBDA c : c \notin WhiteSpace)

\* The statements ss tile the document from position from on: before each
\* statement only whitespace, then the statement itself character for
\* character, and after the last one only whitespace.
RECURSIVE TilesDocument(_, _)
TilesDocument(ss, from) ==
    LET rest == SubSeq(policyFile, from, Len(policyFile))
        skipped == Len(rest) - Len(TrimStart(rest))
        start == from + skipped
    IN IF ss = <<>> THEN ~HasNonWhiteSpace(rest)
       ELSE LET t == Head(ss) IN
            /\ start + Len(t) - 1 <= Len(policyFile)
            /\ SubSeq(policyFile, start, start + Len(t) - 1) = t
            /\ TilesDocument(Tail(ss), start + Len(t))

\* C11: on success the returned statements, concatenated in order, are the
\* document with only the whitespace before each statement and after the
\* last terminator removed; every non-whitespace character of the document,
\* comment and string characters included, appears once, unmodified and in
\* order.
C11_ConcatenationReconstructsDocument ==
    pc = "returned" =>
        /\ TilesDocument(ReturnedStatements, 1)
        /\ NonWhiteSpaceOf(Concat(ReturnedStatements)) = NonWhiteSpaceOf(policyFile)

\* C11 witness: a returned statement that keeps a line comment and its
\* newline, from a document that starts with whitespace.
C11_Witness ==
    /\ pc = "returned"
    /\ Len(ReturnedStatements) = 1
    /\ policyFile[1] \in WhiteSpace
    /\ Len(ReturnedStatements[1]) = 4
    /\ SubSeq(ReturnedStatements[1], 1, 3) = <<"/", "/", "\n">>

\* A step that scans a `;` outside strings and comments.
ScansStructuralTerminator ==
    InLoop /\ ~inString /\ ~inLineComment /\ ~inBlockComment /\ ch = ";"

\* C13 (as claimed): the number of returned statements is the number of `;`
\* scanned in NORMAL mode minus those whose segment, the text since the
\* previous terminator, is whitespace-only: a NORMAL `;` adds one statement
\* when its segment has non-whitespace content and none when it has not, no
\* other step adds or removes one, and the mapping has one entry per
\* statement counted.
C13_CountIsTerminatorsMinusEmptySegments ==
    /\ [][Len(results') = Len(results) +
            (IF ScansStructuralTerminator /\ HasNonWhiteSpace(buf) THEN 1 ELSE 0)]_vars
    /\ [](pc = "returned" => Len(finalResults) = Len(results))

\* C14: the empty document and every whitespace-only document return the
\* empty mapping, and the scan of such a document pushes no statement.
C14_EmptyOrWhitespaceReturnsEmpty ==
    ~HasNonWhiteSpace(policyFile) =>
        /\ pc # "thrown"
        /\ results = <<>>
        /\ pc = "returned" => finalResults = <<>>

\* C14 witness: a returned call on a document of both kinds of whitespace.
C14_Witness ==
    /\ pc = "returned"
    /\ Len(policyFile) >= 3
    /\ ~HasNonWhiteSpace(policyFile)
    /\ \E j, k \in 1..Len(policyFile) : policyFile[j] = " " /\ policyFile[k] = "\n"

\* C14 second witness: a returned call on the empty document.
C14_WitnessEmpty == pc = "returned" /\ policyFile = <<>>

\* C17: a failed call returns no mapping, also when statements had been
\* pushed before the trailing content; the failed call does nothing more.
C17_AllOrNothing ==
    /\ [](pc = "thrown" => finalResults = <<>>)
    /\ [][pc = "thrown" => UNCHANGED vars]_vars

\* C17 witness: a failed call with a statement pushed before an unterminated
\* one.
C17_Witness ==
    /\ pc = "thrown"
    /\ Len(results) >= 1
    /\ ~inString /\ ~inLineComment /\ ~inBlockComment
    /\ HasNonWhiteSpace(buf)
    /\ finalResults = <<>>

\* C19: at most one of inString, inLineComment and inBlockComment is set in
\* any scan state, and the scan starts with none set.
C19_ModesMutuallyExclusive ==
    /\ ~(inString /\ inLineComment)
    /\ ~(inString /\ inBlockComment)
    /\ ~(inLineComment /\ inBlockComment)
    /\ (pc = "scan" /\ i = 0) => (~inString /\ ~inLineComment /\ ~inBlockComment)

\* C19 witness: inside a block comment, after a quote and a `//` pair were
\* scanned there.
C19_Witness ==
    /\ inBlockComment /\ ~inString /\ ~inLineComment
    /\ \E k \in 3..(Len(buf) - 1) : buf[k] = "/" /\ buf[k + 1] = "/"
    /\ \E k \in 3..Len(buf) : buf[k] = "\""

\* C19 second witness: inside a string, after a `/*` pair was scanned there.
C19_WitnessString ==
    /\ inString /\ ~inBlockComment /\ ~inLineComment
    /\ \E k \in 2..(Len(buf) - 1) : buf[k] = "/" /\ buf[k + 1] = "*"

-----------------------------------------------------------------------------
\* The document quote, a, backslash, backslash, quote, semicolon.
EscapedBackslashDocument == <<"\"", "a", "\\", "\\", "\"", ";">>

\* C15: outside comments a `"` toggles between NORMAL and IN_STRING exactly
\* when the document character right before it is not a backslash (a `"` at
\* the start of the document toggles); a `"` right after `\` leaves the mode
\* as it is, whatever precedes the backslash.  So in the document
\* `"a\\";` the string is still open at the `;` and the call fails.
C15_OneCharacterLookback ==
    /\ [][(InLoop /\ ~inLineComment /\ ~inBlockComment /\ ch = "\"")
            => /\ inString' = IF i > 0 /\ policyFile[i] = "\\"
                              THEN inString ELSE ~inString
               /\ i' = i + 1
               /\ buf' = Append(buf, ch)
               /\ results' = results]_vars
    /\ []((Finished /\ policyFile = EscapedBackslashDocument)
            => (pc = "thrown" /\ inString /\ results = <<>>))

\* C15 witness: the call on `"a\\";` has failed with the string open.
C15_Witness ==
    /\ pc = "thrown"
    /\ policyFile = EscapedBackslashDocument
    /\ inString
    /\ buf = EscapedBackslashDocument

\* C16: while the scanner is inside a string `//` and `/*` open no comment:
\* a step taken inside a string scans one character and sets no comment
\* flag, the closing `"` ends the string and the `;` after it is structural,
\* so `"//";` and `"/*";` each return one statement, the whole document.
C16_NoCommentInsideString ==
    /\ [][(InLoop /\ inString)
            => /\ ~inLineComment' /\ ~inBlockComment'
               /\ i' = i + 1
               /\ buf' = Append(buf, ch)
               /\ inString' = ~(ch = "\"" /\ prev # "\\")]_vars
    /\ []((Finished /\ policyFile \in {<<"\"", "/", "/", "\"", ";">>,
                                      <<"\"", "/", "*", "\"", ";">>})
            => (pc = "returned" /\ ReturnedStatements = <<policyFile>>))

\* C16 witness: a returned statement that holds `//` between its quotes.
C16_Witness ==
    /\ pc = "returned"
    /\ ReturnedStatements = <<policyFile>>
    /\ policyFile = <<"\"", "/", "/", "\"", ";">>

\* C16 second witness: the same with `/*`.
C16_WitnessBlock ==
    /\ pc = "returned"
    /\ ReturnedStatements = <<policyFile>>
    /\ policyFile = <<"\"", "/", "*", "\"", ";">>

-----------------------------------------------------------------------------
\* C12: idempotence.  On success, the returned statements joined in order
\* (directly, or with a newline or a space between them) split again without
\* error into the identical mapping: same statements, same order, same
\* identifiers.
C12_Idempotent ==
    pc = "returned" =>
        \A sep \in {<<>>, <<"\n">>, <<" ">>} :
            splitCedarPolicies(JoinWith(ReturnedStatements, sep))
                = [threw |-> FALSE, value |-> finalResults]

\* C12 witness: a returned mapping of two different statements, from a
\* document that holds a quote and whitespace the join does not keep.
C12_Witness ==
    /\ pc = "returned"
    /\ Len(ReturnedStatements) = 2
    /\ ReturnedStatements[1] # ReturnedStatements[2]
    /\ Concat(ReturnedStatements) # policyFile
    /\ \E k \in 1..Len(policyFile) : policyFile[k] = "\""

-----------------------------------------------------------------------------
\* The states an invocation goes through when it runs alone from s.
RECURSIVE Trajectory(_)
Trajectory(s) ==
    IF s.pc # "scan" THEN {s} ELSE {s} \cup Trajectory(StepCall(s))

\* C18: all scan state is local to one invocation.  However the steps of
\* two invocations interleave, each is at every moment in a state of its own
\* solo run on its own document, and once it has ended its outcome is the
\* outcome of that solo run.
C18_InvocationsIndependent ==
    \A c \in DOMAIN calls :
        /\ calls[c] \in Trajectory(InitialCall(calls[c].policyFile))
        /\ calls[c].pc # "scan"
             => OutcomeOf(calls[c]) = splitCedarPolicies(calls[c].policyFile)

\* C18 witness: both invocations are in mid-scan, one inside a string and
\* the other just past a backslash.
C18_Witness ==
    /\ Len(calls) = 2
    /\ calls[1].pc = "scan" /\ calls[1].i = 1 /\ calls[1].inString
    /\ calls[2].pc = "scan" /\ calls[2].i = 1 /\ calls[2].prev = "\\"

\* C18 second witness: both invocations have ended, one with a mapping of
\* two statements and one with the error.
C18_WitnessEnded ==
    /\ Len(calls) = 2
    /\ calls[1].pc = "returned" /\ Len(calls[1].finalResults) = 2
    /\ calls[2].pc = "thrown"

-----------------------------------------------------------------------------
\* The entry of the getService call a step makes.
CallMade == getServiceLog'[Len(getServiceLog')]

LoadsSucceeded(e) ==
    /\ Len(e.loads) = 2
    /\ e.loads[1].gave # LoadFailed
    /\ e.loads[2].gave # LoadFailed

\* C20: getService caching.  A call with refresh false while an instance is
\* cached resolves with that very instance, loads no file, leaves the cache
\* and the instance (its config included) as they were, whatever config it
\* was given.  A call with refresh true, or with nothing cached, loads
\* policies.cedar first and schema.cedarschema second and, when both load
\* and the policy text is the well-formed one, builds a new instance from
\* them and the given config, resolves with it and caches it.
C20_GetServiceCaching ==
    [][Len(getServiceLog') = Len(getServiceLog) + 1 =>
        IF ~CallMade.refresh /\ service # 0
        THEN /\ CallMade.result = Resolved(service)
             /\ CallMade.loads = <<>>
             /\ service' = service
             /\ instances' = instances
        ELSE /\ Len(CallMade.loads) >= 1
             /\ CallMade.loads[1].file = "policies.cedar"
             /\ CallMade.loads[1].gave # LoadFailed
                  => /\ Len(CallMade.loads) = 2
                     /\ CallMade.loads[2].file = "schema.cedarschema"
             /\ (LoadsSucceeded(CallMade) /\ CallMade.loads[1].gave = <<"a", ";">>)
                  => /\ CallMade.result = Resolved(Len(instances) + 1)
                     /\ service' = Len(instances) + 1
                     /\ Len(instances') = Len(instances) + 1
                     /\ SubSeq(instances', 1, Len(instances)) = instances
                     /\ instances'[service'].authorizationConfig
                            = CallMade.authorizationConfig
                     /\ instances'[service'].schema = CallMade.loads[2].gave
                     /\ instances'[service'].policy
                            = <<<<"policy_0", <<"a", ";">>>>>>]_vars

\* C20 witness: the first call built instance 1 without refresh, the second
\* call, with another config and refresh false, got instance 1 back without
\* loading, and the third, with refresh true, built and cached instance 2.
C20_Witness ==
    /\ Len(getServiceLog) = 3
    /\ ~getServiceLog[1].refresh
    /\ getServiceLog[1].result = Resolved(1)
    /\ ~getServiceLog[2].refresh
    /\ getServiceLog[2].authorizationConfig # getServiceLog[1].authorizationConfig
    /\ getServiceLog[2].result = Resolved(1)
    /\ getServiceLog[2].loads = <<>>
    /\ getServiceLog[3].refresh
    /\ getServiceLog[3].result = Resolved(2)
    /\ service = 2
    /\ instances[1].authorizationConfig = getServiceLog[1].authorizationConfig

-----------------------------------------------------------------------------
\* Every getService step is the function getService applied to the static
\* field, the instances, the call's arguments and some contents of the two
\* files.
GetServiceActionsAreGetService ==
    [][Len(getServiceLog') = Len(getServiceLog) + 1 =>
        \E policyLoad \in PolicyLoads, schemaLoad \in SchemaLoads :
            LET g == getService(service, instances,
                                CallMade.authorizationConfig, CallMade.refresh,
                                policyLoad, schemaLoad)
            IN  /\ service' = g.service
                /\ instances' = g.instances
                /\ CallMade.loads = g.loads
                /\ CallMade.result = g.result]_vars

\* C21: getService load errors.  A call that does not use the cache and
\* whose load of policies.cedar fails rejects with
\* MissingAuthorizationPolicyError and makes no second load, so the schema
\* file is not read and the policy error is the one reported whether or not
\* the schema load would have failed too; a call whose policy load succeeds
\* and whose schema load fails rejects with MissingAuthorizationSchemaError.
\* The two errors arise in no other way.
C21_GetServiceLoadErrors ==
    [][Len(getServiceLog') = Len(getServiceLog) + 1 =>
        /\ (Len(CallMade.loads) >= 1 /\ CallMade.loads[1].gave = LoadFailed)
             => /\ CallMade.loads[1].file = "policies.cedar"
                /\ CallMade.result = Rejected("MissingAuthorizationPolicyError")
                /\ Len(CallMade.loads) = 1
        /\ (Len(CallMade.loads) = 2 /\ CallMade.loads[2].gave = LoadFailed)
             => /\ CallMade.loads[1].gave # LoadFailed
                /\ CallMade.loads[2].file = "schema.cedarschema"
                /\ CallMade.result = Rejected("MissingAuthorizationSchemaError")
        /\ CallMade.result = Rejected("MissingAuthorizationPolicyError")
             => CallMade.loads[1].gave = LoadFailed
        /\ CallMade.result = Rejected("MissingAuthorizationSchemaError")
             => CallMade.loads[2].gave = LoadFailed
        /\ \A policyLoad \in PolicyLoads, schemaLoad \in SchemaLoads :
              LET g == getService(service, instances,
                                  CallMade.authorizationConfig, TRUE,
                                  policyLoad, schemaLoad)
              IN  /\ policyLoad.threw
                       => /\ g.result = Rejected("MissingAuthorizationPolicyError")
                          /\ \A k \in 1..Len(g.loads) :
                                g.loads[k].file # "schema.cedarschema"
                  /\ (~policyLoad.threw /\ schemaLoad.threw)
                       => g.result = Rejected("MissingAuthorizationSchemaError")
       ]_vars

\* C21 witness: one call was rejected with the policy error after a single
\* load, another with the schema error after the policy file had loaded,
\* while an instance built by the first call was cached.
C21_Witness ==
    /\ Len(getServiceLog) = 3
    /\ getServiceLog[1].result = Resolved(1)
    /\ getServiceLog[2].refresh
    /\ getServiceLog[2].result = Rejected("MissingAuthorizationPolicyError")
    /\ Len(getServiceLog[2].loads) = 1
    /\ getServiceLog[3].result = Rejected("MissingAuthorizationSchemaError")
    /\ getServiceLog[3].loads[1].gave # LoadFailed
    /\ service = 1

-----------------------------------------------------------------------------
\* The instance an isAuthorized step was called on, as it was before the step.
CalledOn == instances[lastCall'.instance]

UserMissing == userName \in {Undefined, ""} \/ ~roles.defined

ActionMissing(this) == this.action \in {Undefined, ""}

ResourceMissing(this) == this.resource \in {Undefined, ""}

\* C22: isAuthorized validates in a fixed order.  It throws
\* MissingAuthenticatedUserDetailsError when the user name is missing or the
\* roles are undefined, otherwise MissingAuthorizationActionError when no
\* action is set, otherwise MissingAuthorizationResourceError when no
\* resource is set, so of several missing things the first in this order
\* decides; the engine is called exactly when nothing is missing, and a
\* user name with an empty roles list is not missing.
C22_ValidationOrder ==
    [][lastCall'.op = "isAuthorized" =>
        /\ UserMissing
             => lastCall'.outcome = Rejected("MissingAuthenticatedUserDetailsError")
        /\ (~UserMissing /\ ActionMissing(CalledOn))
             => lastCall'.outcome = Rejected("MissingAuthorizationActionError")
        /\ (~UserMissing /\ ~ActionMissing(CalledOn) /\ ResourceMissing(CalledOn))
             => lastCall'.outcome = Rejected("MissingAuthorizationResourceError")
        /\ (UserMissing \/ ActionMissing(CalledOn) \/ ResourceMissing(CalledOn))
             => lastCall'.engineCalls = <<>>
        /\ ~(UserMissing \/ ActionMissing(CalledOn) \/ ResourceMissing(CalledOn))
             => Len(lastCall'.engineCalls) = 1
        /\ (userName = "alice" /\ roles = RolesOf(<<>>))
             => lastCall'.outcome
                    # Rejected("MissingAuthenticatedUserDetailsError")
       ]_vars

\* C22 witness: isAuthorized was called with a user name but no roles, no
\* action and no resource, and threw the user details error.
C22_Witness ==
    /\ lastCall.op = "isAuthorized"
    /\ userName = "alice"
    /\ roles = NoRoles
    /\ instances[lastCall.instance].action = Undefined
    /\ instances[lastCall.instance].resource = Undefined
    /\ lastCall.outcome = Rejected("MissingAuthenticatedUserDetailsError")

\* C22 second witness: with an empty roles list and everything else set the
\* engine was called.
C22_WitnessEmptyRoles ==
    /\ lastCall.op = "isAuthorized"
    /\ userName = "alice"
    /\ roles = RolesOf(<<>>)
    /\ Len(lastCall.engineCalls) = 1

\* C23: isAuthorized is deny-by-default over the engine's answer.  When the
\* engine is called, the call returns true exactly for a success whose
\* decision is allow, returns false for a success with another decision, and
\* for a failure throws an Error carrying the messages joined by newlines;
\* when the engine is not called it throws and returns nothing.
C23_DenyByDefault ==
    [][lastCall'.op = "isAuthorized" =>
        IF Len(lastCall'.engineCalls) = 1
        THEN LET authResult == lastCall'.engineCalls[1].gave
             IN  /\ (authResult.type = "success" /\ authResult.decision = "allow")
                      => /\ lastCall'.outcome.kind = "returned"
                         /\ lastCall'.outcome.value = TRUE
                 /\ (authResult.type = "success" /\ authResult.decision # "allow")
                      => /\ lastCall'.outcome.kind = "returned"
                         /\ lastCall'.outcome.value = FALSE
                 /\ authResult.type = "failure"
                      => /\ lastCall'.outcome.kind = "error"
                         /\ lastCall'.outcome.name = "Error"
                         /\ lastCall'.outcome.message
                                = JoinWith(authResult.errors, <<"\n">>)
        ELSE lastCall'.outcome.kind = "error"
       ]_vars

\* C23 witness: the engine answered allow and isAuthorized returned true.
C23_Witness ==
    /\ lastCall.op = "isAuthorized"
    /\ Len(lastCall.engineCalls) = 1
    /\ lastCall.engineCalls[1].gave = Success("allow")
    /\ lastCall.outcome = ReturnedValue(TRUE)

\* C23 second witness: the engine answered with a failure and isAuthorized
\* threw an Error with both messages.
C23_WitnessFailure ==
    /\ lastCall.op = "isAuthorized"
    /\ Len(lastCall.engineCalls) = 1
    /\ lastCall.engineCalls[1].gave.type = "failure"
    /\ lastCall.outcome = ErrorWith(<<"e", "1", "\n", "e", "2">>)

-----------------------------------------------------------------------------
\* What the claims stored by an event with an authorizer are: the user name
\* claim, and the groups claim as a list.
ClaimedUserName(event) ==
    IF event.authorizer.hasClaims THEN event.authorizer.username ELSE Undefined

ClaimedRoles(event) ==
    IF event.authorizer.hasClaims /\ event.authorizer.groups.type = "string"
    THEN RolesOf(<<event.authorizer.groups.text>>)
    ELSE IF event.authorizer.hasClaims /\ event.authorizer.groups.type = "object"
    THEN RolesOf(event.authorizer.groups.items)
    ELSE NoRoles

\* C25: setUserDetails frame and overwrite rule.  Called with an event that
\* has no requestContext.authorizer it leaves the stored user name and roles
\* as they were; called with an event that has an authorizer it overwrites
\* both, storing a single string group as a one-element list and undefined
\* for a claim that is absent.
C25_SetUserDetailsFrameAndOverwrite ==
    [][lastCall'.op = "setUserDetails" =>
        IF ~lastCall'.event.authorizer.present
        THEN /\ userName' = userName
             /\ roles' = roles
        ELSE /\ userName' = ClaimedUserName(lastCall'.event)
             /\ roles' = ClaimedRoles(lastCall'.event)
       ]_vars

\* The rule of C25 for the events it holds for: those without an authorizer
\* and those whose authorizer has a claims object.  For an authorizer that
\* has no claims object the call throws and stores nothing.
SetUserDetailsWithClaimsOverwrites ==
    [][lastCall'.op = "setUserDetails" =>
        IF ~lastCall'.event.authorizer.present
        THEN /\ userName' = userName
             /\ roles' = roles
             /\ lastCall'.outcome = ReturnedVoid
        ELSE IF lastCall'.event.authorizer.hasClaims
        THEN /\ userName' = ClaimedUserName(lastCall'.event)
             /\ roles' = ClaimedRoles(lastCall'.event)
             /\ lastCall'.outcome = ReturnedVoid
        ELSE /\ userName' = userName
             /\ roles' = roles
             /\ lastCall'.outcome = Rejected("TypeError")
       ]_vars

\* A setUserDetails call with an authorizer that has no claims object left
\* the details of an earlier event in place.
SetUserDetailsThrewKeepingDetails ==
    /\ lastCall.op = "setUserDetails"
    /\ lastCall.event.authorizer = AuthorizerWithoutClaims
    /\ lastCall.outcome = Rejected("TypeError")
    /\ userName = "alice"
    /\ roles = RolesOf(<<"admin">>)

-----------------------------------------------------------------------------
\* C26: after resetDetails the user name and the roles are both undefined;
\* from a state in which both are undefined every step that is not a
\* setUserDetails call with an authenticated event (further resetDetails and
\* unauthenticated setUserDetails calls included) leaves both undefined, and
\* an isAuthorized call made in such a state throws
\* MissingAuthenticatedUserDetailsError without reaching the engine.
C26_ResetDetailsHoldsUntilAuthenticated ==
    [][/\ lastCall'.op = "resetDetails"
          => /\ userName' = Undefined
             /\ roles' = NoRoles
       /\ (/\ userName = Undefined
           /\ roles = NoRoles
           /\ ~(/\ lastCall'.op = "setUserDetails"
                /\ lastCall'.event.authorizer.present))
          => /\ userName' = Undefined
             /\ roles' = NoRoles
             /\ lastCall'.op = "isAuthorized"
                  => /\ lastCall'.outcome
                         = Rejected("MissingAuthenticatedUserDetailsError")
                     /\ lastCall'.engineCalls = <<>>
      ]_vars

\* C26 witness: resetDetails was the last call, both details are undefined
\* and the cached instance has its action and resource set, so the user
\* details are all that is missing.
C26_Witness ==
    /\ lastCall.op = "resetDetails"
    /\ getUserName = Undefined
    /\ getRoles = NoRoles
    /\ service # 0
    /\ instances[service].action = "getOrder"
    /\ instances[service].resource = "order-123"

\* C26 second witness: with both details undefined and action and resource
\* set, isAuthorized threw the user details error.
C26_WitnessIsAuthorized ==
    /\ lastCall.op = "isAuthorized"
    /\ getUserName = Undefined
    /\ getRoles = NoRoles
    /\ instances[lastCall.instance].action = "getOrder"
    /\ instances[lastCall.instance].resource = "order-123"
    /\ lastCall.outcome = Rejected("MissingAuthenticatedUserDetailsError")

-----------------------------------------------------------------------------
\* The event has a cedar-refresh header whose value is the string 'true'.
AsksRefresh(event) ==
    event.headers.present /\ event.headers.cedarRefresh = "true"

\* C24: the before hook, on every invocation, first calls setUserDetails
\* with the event and then calls getService with the middleware's config and
\* with refresh true exactly when the event has a cedar-refresh header whose
\* value is 'true'; when getService rejects, setUserDetails has already run
\* and the hook rejects with the same error.
C24_BeforeCallsInOrder ==
    [][lastCall'.op = "before" =>
        /\ Len(lastCall'.calls) = 2
        /\ lastCall'.calls[1].fn = "setUserDetails"
        /\ lastCall'.calls[1].event = lastCall'.event
        /\ lastCall'.calls[2].fn = "getService"
        /\ lastCall'.calls[2].authorizationConfig = MiddlewareConfig
        /\ lastCall'.calls[2].refresh = AsksRefresh(lastCall'.event)
        /\ lastCall'.calls[2].result.kind = "error"
             => /\ lastCall'.outcome = lastCall'.calls[2].result
                /\ lastCall'.event.authorizer.present
                     => /\ userName' = ClaimedUserName(lastCall'.event)
                        /\ roles' = ClaimedRoles(lastCall'.event)
       ]_vars

\* The order of C24 for the runs in which setUserDetails returns; when it
\* throws (an authorizer without a claims object) the hook rejects with that
\* TypeError and getService is not called.
BeforeCallsInOrderUnlessSetUserDetailsThrows ==
    [][lastCall'.op = "before" =>
        /\ lastCall'.calls[1].fn = "setUserDetails"
        /\ lastCall'.calls[1].event = lastCall'.event
        /\ lastCall'.calls[1].threw
             = (lastCall'.event.authorizer = AuthorizerWithoutClaims)
        /\ lastCall'.calls[1].threw
             => /\ Len(lastCall'.calls) = 1
                /\ lastCall'.outcome = Rejected("TypeError")
                /\ UNCHANGED <<service, instances, userName, roles>>
        /\ ~lastCall'.calls[1].threw
             => /\ Len(lastCall'.calls) = 2
                /\ lastCall'.calls[2].fn = "getService"
                /\ lastCall'.calls[2].authorizationConfig = MiddlewareConfig
                /\ lastCall'.calls[2].refresh = AsksRefresh(lastCall'.event)
                /\ lastCall'.calls[2].result.kind = "error"
                     => lastCall'.outcome = lastCall'.calls[2].result
                /\ lastCall'.calls[2].result.kind # "error"
                     => lastCall'.outcome = ReturnedVoid
                /\ lastCall'.event.authorizer.present
                     => /\ userName' = ClaimedUserName(lastCall'.event)
                        /\ roles' = ClaimedRoles(lastCall'.event)
       ]_vars

\* A run of the hook in which getService rejected after setUserDetails had
\* stored the event's details, while an instance was cached and a refresh
\* was asked for.
BeforeRejectedAfterUserDetails ==
    /\ lastCall.op = "before"
    /\ Len(lastCall.calls) = 2
    /\ lastCall.calls[2].refresh
    /\ lastCall.outcome = Rejected("MissingAuthorizationPolicyError")
    /\ userName = "alice"
    /\ roles = RolesOf(<<"admin">>)
    /\ service # 0

\* A run of the hook that ended in setUserDetails: the TypeError propagated
\* and the details of an earlier request are still stored.
BeforeRejectedInSetUserDetails ==
    /\ lastCall.op = "before"
    /\ Len(lastCall.calls) = 1
    /\ lastCall.outcome = Rejected("TypeError")
    /\ userName = "alice"

-----------------------------------------------------------------------------
\* The statements pushed so far, each with the whitespace that preceded it
\* in its raw segment, make up the document from position from to position
\* upto exactly; every raw segment ends with its `;`.
RECURSIVE RawSegmentsMakeUp(_, _, _)
RawSegmentsMakeUp(rs, from, upto) ==
    IF rs = <<>> THEN from = upto + 1
    ELSE LET rest == SubSeq(policyFile, from, upto)
             start == from + (Len(rest) - Len(TrimStart(rest)))
             t == Head(rs)
         IN  /\ Len(t) > 0
             /\ t[Len(t)] = ";"
             /\ start + Len(t) - 1 <= upto
             /\ SubSeq(policyFile, start, start + Len(t) - 1) = t
             /\ RawSegmentsMakeUp(Tail(rs), start + Len(t), upto)

\* C27: buffer conservation.  Every step appends the characters it scans to
\* the pending buffer once and in order, except the step that scans a
\* structural `;`, which flushes the buffer with that `;` as one raw segment
\* and empties it; so in every state the raw segments flushed so far
\* followed by the pending buffer are the scanned prefix of the document,
\* and the buffer is emptied at a structural `;` only.
C27_BufferConservation ==
    /\ [][IF ScansStructuralTerminator
          THEN /\ i' = i + 1
               /\ buf' = <<>>
               /\ results' = Append(results, Trim(Append(buf, ";")))
          ELSE /\ i' >= i
               /\ buf' = buf \o SubSeq(policyFile, i + 1, i')
               /\ results' = results]_vars
    /\ [](/\ Len(buf) <= i
          /\ i <= Len(policyFile)
          /\ buf = SubSeq(policyFile, i - Len(buf) + 1, i)
          /\ RawSegmentsMakeUp(results, 1, i - Len(buf)))

\* C27 witness: in mid-scan, two raw segments have been flushed, the first
\* with whitespace before its statement, and the pending buffer holds the
\* two characters scanned since.
C27_Witness ==
    /\ pc = "scan"
    /\ Len(results) = 2
    /\ policyFile[1] \in WhiteSpace
    /\ Len(buf) = 2
    /\ i = Len(results[1]) + Len(results[2]) + 3

-----------------------------------------------------------------------------
\* The document of the claim's example.
OpenerStarDocument == <<"/", "*", "/", ";", "*", "/", "x", ";">>

\* The next three characters are `/*/` and the scanner is in NORMAL mode.
AtSlashStarSlash ==
    /\ pc = "scan"
    /\ ~inString /\ ~inLineComment /\ ~inBlockComment
    /\ i + 3 <= Len(policyFile)
    /\ SubSeq(policyFile, i + 1, i + 3) = <<"/", "*", "/">>

\* C28 (as claimed): the `*` of the opener `/*` cannot serve as the `*` of
\* the closing `*/`.  After the first three characters of a document that
\* starts with `/*/` the scanner is in the block comment, so that `/*/;`
\* has its `;` inside the comment and `/*/;*/x;` yields exactly one
\* statement.
C28_OpenerStarDoesNotClose ==
    /\ (/\ pc = "scan"
        /\ i = 3
        /\ SubSeq(policyFile, 1, 3) = <<"/", "*", "/">>)
         => /\ inBlockComment
            /\ ~splitCedarPolicies(OpenerStarDocument).threw
            /\ Len(splitCedarPolicies(OpenerStarDocument).value) = 1
    /\ (/\ Finished
        /\ policyFile = <<"/", "*", "/", ";">>)
         => pc = "thrown"

\* What the code does with the claim's example: the `/` after `/*` closes
\* the comment, the scanner is in NORMAL mode after `/*/`, and the example
\* document splits into the two statements `/*/;` and `*/x;`.
OpenerStarClosesComment ==
    /\ AtSlashStarSlash
         => /\ StepCall(StepCall(ThisCall)).i = i + 3
            /\ ~StepCall(StepCall(ThisCall)).inBlockComment
    /\ splitCedarPolicies(OpenerStarDocument)
         = [threw |-> FALSE,
            value |-> <<<<"policy_0", <<"/", "*", "/", ";">>>>,
                        <<"policy_1", <<"*", "/", "x", ";">>>>>>]

\* The scanner has scanned `/*/` at the start of the document and is in
\* NORMAL mode.
OpenerStarClosedComment ==
    /\ pc = "scan"
    /\ i = 3
    /\ SubSeq(policyFile, 1, 3) = <<"/", "*", "/">>
    /\ ~inBlockComment

-----------------------------------------------------------------------------
-----------------------------------------------------------------------------
\* C30: a line comment is left exactly at the first newline after its `//`.
\* A step inside a line comment appends its character uninterpreted (no
\* statement is pushed, no string or block comment starts) and leaves the
\* comment exactly when the character is a newline, after which the mode is
\* NORMAL; so inside a line comment no newline has been scanned since its
\* `//`.  A `;` that follows the newline directly is structural, and its
\* statement holds the comment from its `//` to the newline.
C30_LineCommentEndsAtNewline ==
    /\ [][(InLoop /\ inLineComment)
            => /\ i' = i + 1
               /\ buf' = Append(buf, ch)
               /\ results' = results
               /\ ~inString' /\ ~inBlockComment'
               /\ inLineComment' = (ch # "\n")]_vars
    /\ [](inLineComment
            => /\ ~inString /\ ~inBlockComment
               /\ prev # "\n"
               /\ \E k \in 1..(Len(buf) - 1) :
                     /\ buf[k] = "/" /\ buf[k + 1] = "/"
                     /\ \A j \in k..Len(buf) : buf[j] # "\n")
    /\ []((InLoop /\ inLineComment /\ ch = "\n" /\ next = ";")
            => LET t == StepCall(StepCall(ThisCall))
                   comment == CHOOSE k \in 1..(Len(buf) - 1) :
                                 /\ buf[k] = "/" /\ buf[k + 1] = "/"
                                 /\ \A j \in k..Len(buf) : buf[j] # "\n"
                   whole == SubSeq(buf, comment, Len(buf)) \o <<"\n", ";">>
                   pushed == t.results[Len(t.results)]
               IN  /\ t.i = i + 2
                   /\ t.buf = <<>>
                   /\ ~t.inLineComment /\ ~t.inString /\ ~t.inBlockComment
                   /\ Len(t.results) = Len(results) + 1
                   /\ Len(pushed) >= Len(whole)
                   /\ SubSeq(pushed, Len(pushed) - Len(whole) + 1, Len(pushed))
                          = whole)

\* C30 witness: the returned statement is a line comment that holds a `;`,
\* its newline, and the `;` of the following line.
C30_Witness ==
    /\ pc = "returned"
    /\ ReturnedStatements = <<<<"/", "/", ";", "\n", ";">>>>

\* The scan reads the character at position p outside strings and comments.
ScannedInNormalMode(p) ==
    \E s \in Trajectory(InitialCall(policyFile)) :
        /\ s.pc = "scan" /\ s.i = p - 1
        /\ ~s.inString /\ ~s.inLineComment /\ ~s.inBlockComment

\* The position of the last character of s that is not white space.
LastNonWhiteSpace(s) ==
    CHOOSE k \in 1..Len(s) :
        /\ s[k] \notin WhiteSpace
        /\ \A j \in (k + 1)..Len(s) : s[j] \in WhiteSpace

\* C31: the only failure point is the check after the loop. The call never
\* fails while characters are left to scan; a structural `;` pushes whatever
\* the buffer has gathered, unterminated text included, and the scan goes on;
\* and the call returns if and only if the document is white space only or its
\* last character that is not white space is a `;` read outside strings and
\* comments.
C31_OnlyEndOfScanFails ==
    /\ [][pc' = "thrown" => (pc = "scan" /\ ~(i < Len(policyFile)) /\ i' = i)]_vars
    /\ [][InLoop => pc' = "scan"]_vars
    /\ [](pc = "thrown" => i = Len(policyFile))
    /\ [][ScansStructuralTerminator
            => /\ results' = Append(results, Trim(Append(buf, ch)))
               /\ buf' = <<>>
               /\ pc' = "scan"]_vars
    /\ [](Finished
            => ((pc = "returned")
                  <=> \/ ~HasNonWhiteSpace(policyFile)
                      \/ LET last == LastNonWhiteSpace(policyFile)
                         IN  /\ policyFile[last] = ";"
                             /\ ScannedInNormalMode(last)))

\* C31 witness: text left without a terminator before a newline is returned as
\* part of the statement that the later `;` closes.
C31_Witness ==
    /\ pc = "returned"
    /\ policyFile = <<"a", "\n", "a", ";">>
    /\ ReturnedStatements = <<policyFile>>

\* C31 witness: the call fails, after the whole document was scanned, on a
\* document whose last `;` lies inside a string.
C31_WitnessThrown ==
    /\ pc = "thrown"
    /\ policyFile = <<"a", ";", "\"", ";">>
    /\ i = Len(policyFile)

\* The statements and the keys of a returned mapping, in its order.
StatementsOf(r) == [k \in 1..Len(r.value) |-> r.value[k][2]]

KeysOf(r) == [k \in 1..Len(r.value) |-> r.value[k][1]]

\* The document is A followed by B, the first k characters being A.
PartA(k) == SubSeq(policyFile, 1, k)

PartB(k) == SubSeq(policyFile, k + 1, Len(policyFile))

\* C32: splitting distributes over concatenation. However the scanned
\* document is cut into A followed by B, if splitCedarPolicies(A) returns then
\* the call on the whole document returns exactly when splitCedarPolicies(B)
\* returns, and then its statements are those of A followed by those of B
\* under the keys policy_0, policy_1, ... in that order. Right after a
\* statement is pushed the scan is outside strings and comments, the buffer is
\* empty and the previous character is neither `\` nor `*`.
C32_SplitDistributesOverConcatenation ==
    /\ [](Finished
            => \A k \in 0..Len(policyFile) :
                  LET a == splitCedarPolicies(PartA(k))
                      b == splitCedarPolicies(PartB(k))
                  IN  ~a.threw
                        => /\ (pc = "returned") <=> ~b.threw
                           /\ pc = "returned"
                                => /\ ReturnedStatements
                                        = StatementsOf(a) \o StatementsOf(b)
                                   /\ ReturnedKeys
                                        = SubSeq(ExpectedKeys, 1,
                                                 Len(a.value) + Len(b.value)))
    /\ [][Len(results') > Len(results)
            => /\ ~inString' /\ ~inLineComment' /\ ~inBlockComment'
               /\ buf' = <<>>
               /\ prev' \notin {"\\", "*"}
               /\ prev' = ";"]_vars

\* C32 witness: `a; ` followed by `a;`, both of which split on their own,
\* returned as two statements.
C32_Witness ==
    /\ pc = "returned"
    /\ policyFile = <<"a", ";", " ", "a", ";">>
    /\ ~splitCedarPolicies(PartA(3)).threw
    /\ StatementsOf(splitCedarPolicies(PartA(3))) = <<<<"a", ";">>>>
    /\ StatementsOf(splitCedarPolicies(PartB(3))) = <<<<"a", ";">>>>
    /\ ReturnedStatements = <<<<"a", ";">>, <<"a", ";">>>>
    /\ ReturnedKeys = <<"policy_0", "policy_1">>

\* C32 witness: A splits, B does not, and the whole call fails.
C32_WitnessFails ==
    /\ pc = "thrown"
    /\ policyFile = <<"a", ";", "\n", "a">>
    /\ ~splitCedarPolicies(PartA(3)).threw
    /\ splitCedarPolicies(PartB(3)).threw

\* The positions of s at which a scan of s on its own pushes a statement.
FlushPositions(s) ==
    {t.i + 1 : t \in {u \in Trajectory(InitialCall(s)) :
                        /\ u.pc = "scan" /\ u.i < Len(u.policyFile)
                        /\ Len(StepCall(u).results) > Len(u.results)}}

\* C33: every returned statement is a fixed point of the split. Scanned on
\* its own from the initial state, a returned statement pushes exactly once,
\* at its last character, which is a `;`, and the call returns the one-entry
\* mapping of policy_0 to that statement.
C33_StatementSplitsToItself ==
    pc = "returned"
      => \A k \in 1..Len(ReturnedStatements) :
            LET t == ReturnedStatements[k]
            IN  /\ splitCedarPolicies(t)
                     = [threw |-> FALSE, value |-> <<<<"policy_0", t>>>>]
                /\ t[Len(t)] = ";"
                /\ FlushPositions(t) = {Len(t)}

\* C33 witness: a returned statement that holds a `;` inside a string and
\* follows another statement.
C33_Witness ==
    /\ pc = "returned"
    /\ ReturnedStatements = <<<<";">>, <<"\"", ";", "\"", ";">>>>
    /\ splitCedarPolicies(ReturnedStatements[2]).value
         = <<<<"policy_0", ReturnedStatements[2]>>>>

\* The scan as the sequential program it is: a call that can take a step
\* takes it.
TermMaxLen == 4

TermDocs == UNION {[1..n -> Alphabet] : n \in 0..TermMaxLen}

InitTerminating ==
    /\ policyFile \in TermDocs
    /\ i = 0
    /\ buf = <<>>
    /\ inString = FALSE
    /\ inLineComment = FALSE
    /\ inBlockComment = FALSE
    /\ prev = ""
    /\ results = <<>>
    /\ pc = "scan"
    /\ finalResults = <<>>
    /\ NonScanIdle

SpecTerminating == InitTerminating /\ [][Next]_vars /\ WF_vars(Next)

\* The number of loop iterations the call s still makes.
RECURSIVE IterationsFrom(_)
IterationsFrom(s) ==
    IF s.pc = "scan" /\ s.i < Len(s.policyFile)
    THEN 1 + IterationsFrom(StepCall(s))
    ELSE 0

\* C34: the scan terminates on every finite document. Each loop iteration
\* advances the index by one or by two, by two only at a `//` or `/*` whose
\* second character exists; the index never exceeds the document length; from
\* every state the loop makes at most as many further iterations as characters
\* are left, so at most as many in all as the document has characters; when
\* the loop is over the call throws or returns in one step; every call
\* finishes, and a finished call takes no further step.
C34_ScanTerminates ==
    /\ [][InLoop
            => /\ i' \in {i + 1, i + 2}
               /\ i' = i + 2
                    => /\ i + 1 < Len(policyFile)
                       /\ policyFile[i + 1] = "/"
                       /\ policyFile[i + 2] \in {"/", "*"}
               /\ pc' = "scan"
               /\ policyFile' = policyFile]_vars
    /\ [][(pc = "scan" /\ ~InLoop) => Finished']_vars
    /\ [](i <= Len(policyFile))
    /\ [](IterationsFrom(ThisCall) <= Len(policyFile) - i)
    /\ [](i = 0 => IterationsFrom(InitialCall(policyFile)) <= Len(policyFile))
    /\ <>Finished
    /\ [][~Finished]_vars

\* C34 witness: a call that finished after taking the two-character step at
\* the very end of the document.
C34_Witness ==
    /\ Finished
    /\ policyFile = <<"a", ";", "/", "*">>
    /\ i = Len(policyFile)
    /\ IterationsFrom(InitialCall(policyFile)) = 3

\* The instance that was cached when call n of the log was made: the one the
\* latest earlier call resolved with, 0 when none did.
RECURSIVE CachedBefore(_)
CachedBefore(n) ==
    IF n = 1 THEN 0
    ELSE IF getServiceLog[n - 1].result.kind = "instance"
         THEN getServiceLog[n - 1].result.id
         ELSE CachedBefore(n - 1)

\* C35: a failed getService call leaves the cache unchanged. A call that
\* rejects, because the policy load fails, the schema load fails or
\* splitCedarPolicies throws in the constructor, changes neither the static
\* field nor any instance; the static field always holds the instance the
\* latest resolving call gave; and a call with refresh false that follows a
\* failed call made while an instance was cached resolves with that instance
\* and loads nothing.
C35_FailedGetServiceKeepsCache ==
    /\ [][(Len(getServiceLog') = Len(getServiceLog) + 1
             /\ CallMade.result.kind = "error")
            => /\ CallMade.refresh \/ service = 0
               /\ CallMade.result.name
                     \in {"MissingAuthorizationPolicyError",
                          "MissingAuthorizationSchemaError", "Error"}
               /\ service' = service
               /\ instances' = instances
               /\ service # 0
                    => \A c \in Configs, policyLoad \in PolicyLoads,
                          schemaLoad \in SchemaLoads :
                          LET g == getService(service', instances', c, FALSE,
                                              policyLoad, schemaLoad)
                          IN  /\ g.result = Resolved(service)
                              /\ g.loads = <<>>
                              /\ g.instances = instances]_vars
    /\ [](service = CachedBefore(Len(getServiceLog) + 1))
    /\ [](\A n \in 1..(Len(getServiceLog) - 1) :
            (/\ getServiceLog[n].result.kind = "error"
             /\ CachedBefore(n) # 0
             /\ ~getServiceLog[n + 1].refresh)
              => /\ getServiceLog[n + 1].result = Resolved(CachedBefore(n))
                 /\ getServiceLog[n + 1].loads = <<>>)

\* C35 witness: instance 1 was cached, a refresh failed in the constructor on
\* a policy text without terminator, and the next call without refresh got
\* instance 1.
C35_Witness ==
    /\ Len(getServiceLog) = 3
    /\ getServiceLog[1].result = Resolved(1)
    /\ getServiceLog[2].refresh
    /\ getServiceLog[2].result = Rejected("Error")
    /\ getServiceLog[2].loads[1].gave = <<"a">>
    /\ ~getServiceLog[3].refresh
    /\ getServiceLog[3].result = Resolved(1)
    /\ service = 1
    /\ Len(instances) = 1

\* The instance a builder step was called on, as it was before the step.
Receiver == instances[lastCall'.instance]

C36_WitnessThrew ==
    /\ lastCall.op = "isAuthorized"
    /\ lastCall.engineCalls # <<>>
    /\ lastCall.outcome = ErrorWith(<<"e", "1">>)
    /\ instances[lastCall.instance].entities = EntitiesOf(<<Entity("order-1")>>)

====
